---- MODULE Spec2Model ----
(***************************************************************************)
(* Row-by-row section builders of the Schedule-of-Standard-Rates importers *)
(*   parseExcel            (src/unnamed/part_000, the MongoDB importer)    *)
(*   parsePublicHealthXLSX (src/publichealth.js, the JSON writer)          *)
(* One run of either script: `prog` names the script, `rows` is the part   *)
(* of the sheet read so far, and the remaining variables are the locals    *)
(* of the parse loop.  `ssr_metadata` and `ssr_sections` are the MongoDB   *)
(* collections storeToMongoDB writes.                                      *)
(* `proc` is the importer process: where main stands (pc), the error an    *)
(* await has thrown (err), the state of the MongoClient (connected, the    *)
(* number of close() calls, the indexes created) and the exit status       *)
(* (<<>> while the process runs).                                          *)
(*   convertToJSON         (src/unnamed/part_001, the data-sheet reader)   *)
(* `chunks`, `primary` and `subItem` are its locals and `output` is the    *)
(* object it returns (NULL until it returns); `rows` is again the part of  *)
(* the sheet read so far.                                                  *)
(*   parseSheet            (src/unnamed/part_002, the pipe-rate converter) *)
(* `sheetItems` and `current` are its locals `items` and `current`.        *)
(*   importExcel           (src/seed.js, the labour-rate seeder)           *)
(* `finalData` holds the records it collects and `LabourRate` is the       *)
(* collection it empties and fills.                                        *)
(*                                                                         *)
(* JavaScript values are tagged records: NULL, N(x) (a number, kept in     *)
(* hundredths so that 245.5 is N(24550)) and S("text").  Strings are TLA+  *)
(* strings, taken apart with Len, SubSeq, Head, Tail and \o.               *)
(***************************************************************************)
EXTENDS Integers, Sequences, FiniteSets, TLC

VARIABLES prog, rows, sections, currentSection, currentSubSection,
          sectionIdCounter, itemIdCounter,
          ssr_metadata, ssr_sections, proc,
          chunks, primary, subItem, output,
          sheetItems, current, finalData, LabourRate

vars == <<prog, rows, sections, currentSection, currentSubSection,
          sectionIdCounter, itemIdCounter, ssr_metadata, ssr_sections, proc,
          chunks, primary, subItem, output,
          sheetItems, current, finalData, LabourRate>>

\* the locals of convertToJSON and the object it returns
converter == <<chunks, primary, subItem, output>>

\* the locals of parseSheet (sheetItems is its `items`)
sheetParser == <<sheetItems, current>>

\* the records importExcel collects and the LabourRate collection
seeder == <<finalData, LabourRate>>

\* the two collections of the database, which outlive a run of the importer
collections == <<ssr_metadata, ssr_sections>>

\* Longest sheet explored, the two title rows included.
MaxRows == 5

-----------------------------------------------------------------------------
(* JavaScript values *)

NULL == [t |-> "null"]
N(x100) == [t |-> "num", x100 |-> x100]
S(str) == [t |-> "str", s |-> str]

IsNum(v) == v.t = "num"
IsStr(v) == v.t = "str"

\* !v is false: v is neither null, 0 nor the empty string
Truthy(v) ==
    CASE v.t = "null" -> FALSE
      [] v.t = "num" -> v.x100 # 0
      [] v.t = "str" -> v.s # ""

-----------------------------------------------------------------------------
(* Characters and the string primitives the scripts use *)

Ch(s, i) == IF i >= 1 /\ i <= Len(s) THEN SubSeq(s, i, i) ELSE ""

UpperChars == "ABCDEFGHIJKLMNOPQRSTUVWXYZ"
LowerChars == "abcdefghijklmnopqrstuvwxyz"
DigitChars == "0123456789"

IsSpace(c) == c \in {" ", "\t", "\n", "\r"}
Digits == {Ch(DigitChars, i) : i \in 1..10}
Uppers == {Ch(UpperChars, i) : i \in 1..26}
Lowers == {Ch(LowerChars, i) : i \in 1..26}

IsDigit(c) == c \in Digits
IsUpper(c) == c \in Uppers
IsLower(c) == c \in Lowers
IsLetter(c) == IsUpper(c) \/ IsLower(c)

LowerCh(c) ==
    IF IsUpper(c) THEN Ch(LowerChars, CHOOSE i \in 1..26 : Ch(UpperChars, i) = c)
    ELSE c

RECURSIVE toLowerCase(_)
toLowerCase(s) ==
    IF s = "" THEN "" ELSE LowerCh(Head(s)) \o toLowerCase(Tail(s))

UpperCh(c) ==
    IF IsLower(c) THEN Ch(UpperChars, CHOOSE i \in 1..26 : Ch(LowerChars, i) = c)
    ELSE c

RECURSIVE toUpperCase(_)
toUpperCase(s) ==
    IF s = "" THEN "" ELSE UpperCh(Head(s)) \o toUpperCase(Tail(s))

RECURSIVE TrimStart(_)
TrimStart(s) ==
    IF s # "" /\ IsSpace(Head(s)) THEN TrimStart(Tail(s)) ELSE s

RECURSIVE TrimEnd(_)
TrimEnd(s) ==
    IF s # "" /\ IsSpace(Ch(s, Len(s))) THEN TrimEnd(SubSeq(s, 1, Len(s) - 1))
    ELSE s

\* String.prototype.trim
trim(s) == TrimEnd(TrimStart(s))

\* s.replace(/\s+/g, ' ')
RECURSIVE CollapseSpaces(_)
CollapseSpaces(s) ==
    IF s = "" THEN ""
    ELSE IF IsSpace(Head(s)) THEN " " \o CollapseSpaces(TrimStart(s))
    ELSE Head(s) \o CollapseSpaces(Tail(s))

\* s.replace(/[\s.]+/g, '')
RECURSIVE StripSpacesAndDots(_)
StripSpacesAndDots(s) ==
    IF s = "" THEN ""
    ELSE IF IsSpace(Head(s)) \/ Head(s) = "." THEN StripSpacesAndDots(Tail(s))
    ELSE Head(s) \o StripSpacesAndDots(Tail(s))

startsWith(s, p) == Len(s) >= Len(p) /\ SubSeq(s, 1, Len(p)) = p
endsWith(s, p) == Len(s) >= Len(p) /\ SubSeq(s, Len(s) - Len(p) + 1, Len(s)) = p
includes(s, p) ==
    \E i \in 1..(Len(s) + 1) :
        i + Len(p) - 1 <= Len(s) /\ SubSeq(s, i, i + Len(p) - 1) = p

\* first index >= i of s that holds no digit (Len(s) + 1 when there is none)
RECURSIVE SkipDigits(_, _)
SkipDigits(s, i) ==
    IF i <= Len(s) /\ IsDigit(Ch(s, i)) THEN SkipDigits(s, i + 1) ELSE i

RECURSIVE SkipSpaces(_, _)
SkipSpaces(s, i) ==
    IF i <= Len(s) /\ IsSpace(Ch(s, i)) THEN SkipSpaces(s, i + 1) ELSE i

DigitVal(c) == (CHOOSE i \in 1..10 : Ch(DigitChars, i) = c) - 1

RECURSIVE DigitsVal(_)
DigitsVal(d) ==
    IF d = "" THEN 0
    ELSE 10 * DigitsVal(SubSeq(d, 1, Len(d) - 1)) + DigitVal(Ch(d, Len(d)))

RECURSIVE NatToStr(_)
NatToStr(n) ==
    IF n < 10 THEN Ch(DigitChars, n + 1)
    ELSE NatToStr(n \div 10) \o Ch(DigitChars, (n % 10) + 1)

\* String(x) of a number held in hundredths: 12000 -> "120", 24550 -> "245.5"
NumToStr(x100) ==
    LET a == IF x100 < 0 THEN -x100 ELSE x100
        f == a % 100
        frac == IF f = 0 THEN ""
                ELSE IF f % 10 = 0 THEN "." \o NatToStr(f \div 10)
                ELSE "." \o NatToStr(f \div 10) \o NatToStr(f % 10)
    IN  (IF x100 < 0 THEN "-" ELSE "") \o NatToStr(a \div 100) \o frac

\* String(v) of a non-null value
String(v) == IF IsNum(v) THEN NumToStr(v.x100) ELSE v.s

NaN == [t |-> "nan"]

\* parseFloat(s) of a trimmed string: an optional sign, digits, an optional
\* fraction; NaN when no digit is found.  (Exponents and "Infinity" are not
\* modelled: no input cell of the model holds one.)
\* the digits s[i0..j-1], then the fraction s[j+1..k-1] when k > j
FloatValue(s, i0, j, k) ==
    LET int == SubSeq(s, i0, j - 1)
        fr == IF k > j THEN SubSeq(s, j + 1, k - 1) ELSE ""
    IN  IF int = "" /\ fr = "" THEN NaN
        ELSE N((IF Head(s) = "-" THEN -1 ELSE 1)
               * (100 * DigitsVal(int) + DigitsVal(SubSeq(fr \o "00", 1, 2))))

FractionEnd(s, j) == IF Ch(s, j) = "." THEN SkipDigits(s, j + 1) ELSE j

FloatFromInt(s, i0, j) == FloatValue(s, i0, j, FractionEnd(s, j))

FloatFrom(s, i0) == FloatFromInt(s, i0, SkipDigits(s, i0))

parseFloat(s) ==
    IF s = "" THEN NaN
    ELSE FloatFrom(s, IF Head(s) \in {"-", "+"} THEN 2 ELSE 1)

-----------------------------------------------------------------------------
(* The sheet.  A row is <<item number, description, unit, rate>>: columns  *)
(* B to E as sheet_to_json hands them over (column A is never read).       *)

\* the two title rows of a sheet
HeaderRows == <<
    <<NULL, S("PUBLIC HEALTH ITEMS"), NULL, NULL>>,
    <<N(100), S("RATES OF LABOUR"), NULL, NULL>> >>

\* the rows a sheet is made of below its title rows
Rows == <<
    <<NULL, NULL, NULL, NULL>>,
    <<N(100), S("RATES OF LABOUR"), NULL, NULL>>,
    <<S("60 b."), S("Misc  works"), NULL, NULL>>,
    <<S("11.a."), S("RCC PIPES"), NULL, NULL>>,
    <<S(" 18 B. "), S("Kinetic air valve"), S("each"), S("As per Common SSR")>>,
    <<S("a"), S("G.I. PIPES"), NULL, NULL>>,
    <<NULL, S("G.I. PIPES :"), NULL, N(5000)>>,
    <<NULL, S("80"), S("rm"), N(12000)>>,
    <<NULL, S("100 mm"), S(" rm"), S("As per Common SSR")>>,
    <<NULL, S("Scaffolding 80mm"), NULL, S("245.50")>>,
    <<NULL, NULL, NULL, N(24550)>>,
    <<NULL, S("80mm"), S("rm"), NULL>> >>

-----------------------------------------------------------------------------
(* src/unnamed/part_000: configuration and helpers *)

CATEGORY_MAP == <<
    <<"1", "Labour Rates">>, <<"2", "Earth Work">>,
    <<"3", "Rock Cutting & Blasting">>, <<"3a", "Rock Cutting & Blasting">>,
    <<"3b", "Rock Cutting & Blasting">>, <<"3c", "Rock Cutting & Blasting">>,
    <<"3d", "Rock Cutting & Blasting">>, <<"3e", "Rock Cutting & Blasting">>,
    <<"3f", "Rock Cutting & Blasting">>, <<"4", "Loading & Unloading">>,
    <<"5", "Loading & Unloading">>, <<"6", "Loading & Unloading">>,
    <<"7", "Loading & Unloading">>, <<"8a", "Pipe Laying">>,
    <<"8b", "Pipe Laying">>, <<"9a", "Pipe Jointing">>,
    <<"9b", "Pipe Jointing">>, <<"10", "Pipe Jointing">>,
    <<"11a", "RCC Pipe Laying">>, <<"11b", "RCC Pipe Laying">>,
    <<"12", "GI/PVC/HDPE Pipe Laying">>, <<"13", "AC Pressure Pipe Laying">>,
    <<"14", "AC Pressure Pipe Jointing">>, <<"15", "Stoneware Pipe Laying">>,
    <<"16", "PVC Pipe Laying & Testing">>, <<"17", "Valve Installation Labour">>,
    <<"18a", "Air Valve Labour">>, <<"18b", "Kinetic Air Valve Labour">>,
    <<"19", "Fire Hydrant Labour">>, <<"20", "CI/DI Pipe Uprooting">>,
    <<"21", "RCC Pipe Uprooting">>, <<"22", "GI/PVC/HDPE Pipe Removal">>,
    <<"23", "CI/DI Pipe Cutting">>, <<"24", "AC Pipe Cutting">>,
    <<"25", "Drilling & Tapping">>, <<"26", "Road Surface Cutting">>,
    <<"27", "Dewatering">>, <<"28", "Shoring & Strutting">>,
    <<"29", "Barricading & Watching">>, <<"30", "Underwater Trench Excavation">>,
    <<"31", "Infiltration Gallery">>, <<"32", "Infiltration Gallery">>,
    <<"33", "Centering & Scaffolding">>, <<"34", "Lift & Delift of Materials">>,
    <<"35", "Fixtures Labour">>, <<"36", "Sanitary Fixtures Labour">>,
    <<"37", "Sanitary Fixtures Labour">>, <<"38", "Sanitary Fixtures Labour">>,
    <<"39", "Sanitary Fixtures Labour">>, <<"40", "Trench Refilling">>,
    <<"41a", "Isolated Scattered Works">>, <<"41b", "Repairs to Mains">>,
    <<"42", "Silt & Sludge Removal">>, <<"43", "Pipe Conveyance">>,
    <<"44", "Pipe Conveyance">>, <<"45", "Pipe Conveyance">>,
    <<"46", "Pipe Conveyance">>, <<"47", "Pipe Conveyance">>,
    <<"48", "Well Sinking">>, <<"49", "Well Sinking">>,
    <<"50", "Open Well Excavation">>, <<"51", "OHSR/ELSR Rates (Kilo Litres)">>,
    <<"52", "OHSR/ELSR Rates (Litres)">>, <<"53", "Rapid Gravity Filtration Plant">> >>

Undefined == [t |-> "undefined"]

\* table[k] of a JavaScript object literal, held as <<key, value>> pairs
Lookup(table, k) ==
    IF \E i \in 1..Len(table) : table[i][1] = k
    THEN S(table[CHOOSE i \in 1..Len(table) : table[i][1] = k][2])
    ELSE Undefined

\* a || b
Or(a, b) == IF a.t = "undefined" \/ ~Truthy(a) THEN b ELSE a

\* str || null
OrNull(str) == IF str = "" THEN NULL ELSE S(str)

clean(v) ==
    IF v = NULL THEN NULL
    ELSE OrNull(CollapseSpaces(trim(String(v))))

\* isNaN(n) ? s : n
NumberOrText(str, n) == IF n = NaN THEN S(str) ELSE n

RateOfText(str) ==
    IF str = "" THEN NULL ELSE NumberOrText(str, parseFloat(str))

\* a variant that keeps numbers only: a text that is no number becomes null
parseRateNumbersOnly(v) ==
    IF v = NULL THEN NULL
    ELSE IF IsNum(v) THEN v
    ELSE IF parseFloat(trim(String(v))) = NaN THEN NULL
    ELSE parseFloat(trim(String(v)))

parseRate(v) ==
    IF v = NULL THEN NULL
    ELSE IF IsNum(v) THEN v
    ELSE RateOfText(trim(String(v)))

\* a variant that strips spaces and dots but keeps the letter's case
snoKeyKeepCase(sno) ==
    IF sno = NULL THEN NULL ELSE S(StripSpacesAndDots(String(sno)))

snoKey(sno) ==
    IF sno = NULL THEN NULL
    ELSE S(toLowerCase(StripSpacesAndDots(String(sno))))

\* /^\d+\s*\.?\s*[a-z]?\.?$/i
SkipOneDot(s, i) == IF Ch(s, i) = "." THEN i + 1 ELSE i
SkipOneLetter(s, i) == IF IsLetter(Ch(s, i)) THEN i + 1 ELSE i

SectionHeaderRe(s) ==
    /\ IsDigit(Ch(s, 1))
    /\ SkipOneDot(s, SkipOneLetter(s, SkipSpaces(s,
          SkipOneDot(s, SkipSpaces(s, SkipDigits(s, 1)))))) = Len(s) + 1

isSectionHeader(sno, unit, rate) ==
    IF sno = NULL THEN FALSE
    ELSE IF IsNum(sno) THEN unit = NULL /\ rate = NULL
    ELSE SectionHeaderRe(trim(String(sno))) /\ unit = NULL /\ rate = NULL

CompoundKeys == {"8a", "8b", "9a", "9b", "11a", "11b", "18a", "18b", "41a", "41b"}

\* a variant that tests the item number as written, dots and spaces included
isSimpleCompoundAsWritten(sno) ==
    IF ~Truthy(sno) THEN FALSE ELSE toLowerCase(String(sno)) \in CompoundKeys

isSimpleCompound(sno) ==
    IF ~Truthy(sno) THEN FALSE
    ELSE toLowerCase(StripSpacesAndDots(String(sno))) \in CompoundKeys

\* /^[a-zA-Z]$/
OneLetterRe(s) == Len(s) = 1 /\ IsLetter(s)

isSubSection(sno, unit, rate) ==
    /\ sno # NULL
    /\ OneLetterRe(trim(String(sno)))
    /\ unit = NULL
    /\ rate = NULL

\* the four patterns of isSkip, on the text and its lower-case form
\* (/i): /^DIAMETER OF PIPE/, /^DIA (in|of)/, /^NOTE\b/, /^\s{4,}/
SkipRe(str, d) ==
    \/ startsWith(d, "diameter of pipe")
    \/ startsWith(d, "dia in") \/ startsWith(d, "dia of")
    \/ (startsWith(d, "note")
          /\ ~(IsLetter(Ch(d, 5)) \/ IsDigit(Ch(d, 5)) \/ Ch(d, 5) = "_"))
    \/ SkipSpaces(str, 1) >= 5

isSkip(desc) ==
    IF ~Truthy(desc) THEN FALSE ELSE SkipRe(desc.s, toLowerCase(desc.s))

\* /G\.I\. PIPES|PVC.HDPE pipes/ on a lower-cased text
AutoSubSectionLower(d) ==
    \/ includes(d, "g.i. pipes")
    \/ \E i \in 1..Len(d) :
          /\ i + 13 <= Len(d)
          /\ SubSeq(d, i, i + 2) = "pvc"
          /\ Ch(d, i + 3) \notin {"\n", "\r"}
          /\ SubSeq(d, i + 4, i + 13) = "hdpe pipes"

\* /G\.I\. PIPES|PVC.HDPE pipes/i
AutoSubSectionRe(s) == AutoSubSectionLower(toLowerCase(s))

\* str.replace(/\s*mm$/i, '')
StripMm(str) ==
    IF endsWith(toLowerCase(str), "mm")
    THEN TrimEnd(SubSeq(str, 1, Len(str) - 2))
    ELSE str

typeofNumber(v) == IF IsNum(v) THEN S("numeric") ELSE S("formula")

\* a variant whose category is CATEGORY_MAP[key] alone, with no default
buildSectionNoDefault(sno, key, desc, unit, rate) ==
    [ item_no      |-> IF IsNum(sno) THEN sno ELSE S(String(sno)),
      item_key     |-> key,
      category     |-> Lookup(CATEGORY_MAP, key.s),
      title        |-> desc,
      unit         |-> unit,
      rate         |-> rate,
      rate_type    |-> IF rate = NULL THEN NULL ELSE typeofNumber(rate),
      sub_sections |-> <<>>,
      items        |-> <<>> ]

buildSection(sno, key, desc, unit, rate) ==
    [ item_no      |-> IF IsNum(sno) THEN sno ELSE S(String(sno)),
      item_key     |-> key,
      category     |-> Or(Or(Lookup(CATEGORY_MAP, key.s),
                             Lookup(CATEGORY_MAP, String(sno))),
                          S("General")),
      title        |-> desc,
      unit         |-> unit,
      rate         |-> rate,
      rate_type    |-> IF rate = NULL THEN NULL ELSE typeofNumber(rate),
      sub_sections |-> <<>>,
      items        |-> <<>> ]

\* a variant that stores `rate || null`, so a rate of 0 is stored as absent
buildRateItemFalsyAbsent(desc, unit, rate) ==
    [ dimension |-> IF Truthy(desc) THEN S(trim(StripMm(desc.s))) ELSE NULL,
      unit      |-> IF Truthy(unit) THEN S(trim(unit.s)) ELSE NULL,
      rate      |-> IF Truthy(rate) THEN rate ELSE NULL,
      rate_type |-> typeofNumber(rate) ]

buildRateItem(desc, unit, rate) ==
    [ dimension |-> IF Truthy(desc) THEN S(trim(StripMm(desc.s))) ELSE NULL,
      unit      |-> IF Truthy(unit) THEN S(trim(unit.s)) ELSE NULL,
      rate      |-> rate,
      rate_type |-> typeofNumber(rate) ]

-----------------------------------------------------------------------------
(* The parse loop's locals.  A Section lives in `sections` from the moment *)
(* it is built, so a reference to it is its index there (0: null); a       *)
(* reference to a SubSection is <<index of its Section, index in that      *)
(* Section's sub_sections>> (NoSubSection: null).                          *)

NoSubSection == <<0, 0>>

\* a variant that stores the new Section over the last one instead of pushing it
OpenSectionOverwrite(st, sec) ==
    IF st.sections = <<>>
    THEN [st EXCEPT !.sections = <<sec>>, !.cur = 1, !.sub = NoSubSection]
    ELSE [st EXCEPT !.sections[Len(st.sections)] = sec,
                    !.cur = Len(st.sections),
                    !.sub = NoSubSection]

\* a variant that pushes the new Section but leaves currentSection on the old one
OpenSectionKeepCursor(st, sec) ==
    [st EXCEPT !.sections = Append(@, sec),
               !.cur = IF st.cur = 0 THEN 1 ELSE st.cur,
               !.sub = NoSubSection]

\* a variant that opens the Section without clearing currentSubSection
OpenSectionKeepSubSection(st, sec) ==
    [st EXCEPT !.sections = Append(@, sec),
               !.cur = Len(st.sections) + 1]

\* currentSection = sec; currentSubSection = null; sections.push(currentSection)
OpenSection(st, sec) ==
    [st EXCEPT !.sections = Append(@, sec),
               !.cur = Len(st.sections) + 1,
               !.sub = NoSubSection]

\* a variant that appends the SubSection but leaves currentSubSection as it was
OpenSubSectionKeepCursor(st, ss) ==
    [st EXCEPT !.sections[st.cur].sub_sections = Append(@, ss)]

\* currentSubSection = ss; currentSection.sub_sections.push(currentSubSection)
OpenSubSection(st, ss) ==
    [st EXCEPT !.sections[st.cur].sub_sections = Append(@, ss),
               !.sub = <<st.cur, Len(st.sections[st.cur].sub_sections) + 1>>]

\* currentSubSection ? currentSubSection.items : currentSection.items
Target(st) ==
    IF st.sub # NoSubSection
    THEN st.sections[st.sub[1]].sub_sections[st.sub[2]].items
    ELSE st.sections[st.cur].items

\* the same list, after the loop body has changed it to `items`
WithTarget(st, items) ==
    IF st.sub # NoSubSection
    THEN [st EXCEPT !.sections[st.sub[1]].sub_sections[st.sub[2]].items = items]
    ELSE [st EXCEPT !.sections[st.cur].items = items]

\* a variant that pushes onto currentSection.items whether or not a
\* SubSection is open
PushItemToSection(st, item) ==
    [st EXCEPT !.sections[st.cur].items = Append(@, item)]

\* a variant that pushes the item onto the open SubSection and onto
\* currentSection.items as well
PushItemToBoth(st, item) ==
    IF st.sub # NoSubSection
    THEN [st EXCEPT !.sections[st.sub[1]].sub_sections[st.sub[2]].items = Append(@, item),
                    !.sections[st.cur].items = Append(@, item)]
    ELSE [st EXCEPT !.sections[st.cur].items = Append(@, item)]

\* if (currentSubSection) currentSubSection.items.push(item);
\* else currentSection.items.push(item);
PushItem(st, item) == WithTarget(st, Append(Target(st), item))

\* rawSno != null ? (typeof rawSno === 'string' ? rawSno.trim() : rawSno) : null
TrimSno(rawSno) ==
    IF rawSno # NULL
    THEN (IF IsStr(rawSno) THEN S(trim(rawSno.s)) ELSE rawSno)
    ELSE NULL

NormalizedRow(sno, rawDesc, rawUnit, rawRate) ==
    [ sno  |-> sno,
      desc |-> clean(rawDesc),
      unit |-> clean(rawUnit),
      rate |-> parseRate(rawRate),
      key  |-> snoKey(sno) ]

\* const sno = ..., desc = clean(rawDesc), unit = ..., rate = ..., key = ...
Normalize(row) == NormalizedRow(TrimSno(row[1]), row[2], row[3], row[4])

\* a variant that tests the full rate item before the auto sub-section
RoleRateItemFirst(cur, r) ==
    IF ~Truthy(r.sno) /\ ~Truthy(r.desc) /\ ~Truthy(r.unit) /\ r.rate = NULL
      THEN "blank"
    ELSE IF Truthy(r.sno) /\ isSimpleCompound(r.sno)
      THEN "compound"
    ELSE IF isSectionHeader(r.sno, r.unit, r.rate)
      THEN "section"
    ELSE IF isSubSection(r.sno, r.unit, r.rate) /\ cur # 0
      THEN "subsection"
    ELSE IF cur # 0 /\ Truthy(r.unit) /\ r.rate # NULL
      THEN "rateItem"
    ELSE IF /\ cur # 0 /\ ~Truthy(r.sno) /\ Truthy(r.desc)
            /\ ~isSkip(r.desc) /\ AutoSubSectionRe(r.desc.s)
      THEN "auto"
    ELSE IF cur # 0 /\ r.rate # NULL /\ ~Truthy(r.unit) /\ ~Truthy(r.sno)
      THEN "rateOnly"
    ELSE "ignored"

\* which branch of the loop body a normalised row r takes while
\* currentSection is cur, in the order the body tests them
Role(cur, r) ==
    IF ~Truthy(r.sno) /\ ~Truthy(r.desc) /\ ~Truthy(r.unit) /\ r.rate = NULL
      THEN "blank"
    ELSE IF Truthy(r.sno) /\ isSimpleCompound(r.sno)
      THEN "compound"
    ELSE IF isSectionHeader(r.sno, r.unit, r.rate)
      THEN "section"
    ELSE IF isSubSection(r.sno, r.unit, r.rate) /\ cur # 0
      THEN "subsection"
    ELSE IF /\ cur # 0 /\ ~Truthy(r.sno) /\ Truthy(r.desc)
            /\ ~isSkip(r.desc) /\ AutoSubSectionRe(r.desc.s)
      THEN "auto"
    ELSE IF cur # 0 /\ Truthy(r.unit) /\ r.rate # NULL
      THEN "rateItem"
    ELSE IF cur # 0 /\ r.rate # NULL /\ ~Truthy(r.unit) /\ ~Truthy(r.sno)
      THEN "rateOnly"
    ELSE "ignored"

RowRole(st, row) == Role(st.cur, Normalize(row))

\* { sub_id: String(sno).trim(), description: desc, items: [] }
LetterSubSection(r) ==
    [ sub_id |-> S(trim(String(r.sno))), description |-> r.desc, items |-> <<>> ]

\* a variant that numbers from the count of SubSections, without the + 1
AutoSubSectionFromZero(st, desc) ==
    [ sub_id      |-> S("auto_" \o NatToStr(Len(st.sections[st.cur].sub_sections))),
      description |-> desc,
      items       |-> <<>> ]

\* { sub_id: 'auto_' + (currentSection.sub_sections.length + 1), ... }
AutoSubSection(st, desc) ==
    [ sub_id      |-> S("auto_" \o NatToStr(Len(st.sections[st.cur].sub_sections) + 1)),
      description |-> desc,
      items       |-> <<>> ]

\* a variant of the rate-only branch that works on currentSection.items
\* whether or not a SubSection is open
RateOnlyRowOnSection(st, desc, rate) ==
    PushItemToSection(st, buildRateItem(desc, NULL, rate))

\* the rate-only branch: push, or back-fill the last item of the target
RateOnlyRow(st, desc, rate) ==
    IF Truthy(desc) /\ Len(Target(st)) = 0
      THEN PushItem(st, buildRateItem(desc, NULL, rate))
    ELSE IF Len(Target(st)) > 0 /\ Target(st)[Len(Target(st))].rate = NULL
      THEN WithTarget(st, [Target(st) EXCEPT ![Len(Target(st))].rate = rate])
    ELSE PushItem(st, buildRateItem(desc, NULL, rate))

\* a variant in which a row that takes no branch closes the open SubSection
BranchClosingSubSection(st, r, role) ==
    CASE role \in {"compound", "section"} ->
           OpenSection(st, buildSection(r.sno, r.key, r.desc, r.unit, r.rate))
      [] role = "subsection" -> OpenSubSection(st, LetterSubSection(r))
      [] role = "auto" -> OpenSubSection(st, AutoSubSection(st, r.desc))
      [] role = "rateItem" -> PushItem(st, buildRateItem(r.desc, r.unit, r.rate))
      [] role = "rateOnly" -> RateOnlyRow(st, r.desc, r.rate)
      [] OTHER -> [st EXCEPT !.sub = NoSubSection]

\* the branch `role` of the loop body, on the normalised row r
Branch(st, r, role) ==
    CASE role \in {"compound", "section"} ->
           OpenSection(st, buildSection(r.sno, r.key, r.desc, r.unit, r.rate))
      [] role = "subsection" -> OpenSubSection(st, LetterSubSection(r))
      [] role = "auto" -> OpenSubSection(st, AutoSubSection(st, r.desc))
      [] role = "rateItem" -> PushItem(st, buildRateItem(r.desc, r.unit, r.rate))
      [] role = "rateOnly" -> RateOnlyRow(st, r.desc, r.rate)
      [] OTHER -> st

StepNormalized(st, r) == Branch(st, r, Role(st.cur, r))

\* one pass of the loop body of parseExcel
ParseExcelStep(st, row) == StepNormalized(st, Normalize(row))

-----------------------------------------------------------------------------
(* src/publichealth.js *)

cleanStr(val) ==
    IF val = NULL THEN NULL
    ELSE OrNull(CollapseSpaces(trim(String(val))))

PHRateOfText(str) ==
    IF str = "" \/ str = "-" THEN NULL ELSE NumberOrText(str, parseFloat(str))

PHparseRate(val) ==
    IF val = NULL THEN NULL
    ELSE IF IsNum(val) THEN val
    ELSE PHRateOfText(trim(String(val)))

isNoteRow(desc) ==
    IF ~Truthy(desc) THEN FALSE
    ELSE \/ startsWith(toUpperCase(desc.s), "NOTE")
         \/ startsWith(trim(desc.s), "//")

PHisSectionHeader(sno, desc, unit, rate) ==
    IF ~Truthy(sno) /\ ~Truthy(desc) THEN FALSE
    ELSE IF IsNum(sno) /\ sno.x100 % 100 = 0 /\ ~Truthy(unit) /\ rate = NULL THEN TRUE
    ELSE IF /\ Truthy(sno) /\ IsStr(sno) /\ SkipDigits(trim(sno.s), 1) > 1
            /\ ~Truthy(unit) /\ rate = NULL THEN TRUE
    ELSE FALSE

isSubHeader(sno, desc, unit, rate) ==
    /\ Truthy(sno) /\ IsStr(sno)
    /\ OneLetterRe(trim(sno.s))
    /\ ~Truthy(unit)
    /\ rate = NULL

\* s.replace(/[\s.]/g, '')
StripEachSpaceOrDot(s) == StripSpacesAndDots(s)

\* /^(11[ab]|41[ab]|18[ab])$/i on the item number without spaces and dots
PHisFlatItem(sno) ==
    /\ Truthy(sno)
    /\ toLowerCase(StripEachSpaceOrDot(String(sno)))
         \in {"11a", "11b", "41a", "41b", "18a", "18b"}

\* s.replace(/\.\s*/g, '').replace(/\s+/g, '')
RECURSIVE StripDotRuns(_)
StripDotRuns(s) ==
    IF s = "" THEN ""
    ELSE IF Head(s) = "." THEN StripDotRuns(TrimStart(Tail(s)))
    ELSE Head(s) \o StripDotRuns(Tail(s))

RECURSIVE StripSpaces(_)
StripSpaces(s) ==
    IF s = "" THEN ""
    ELSE IF IsSpace(Head(s)) THEN StripSpaces(Tail(s))
    ELSE Head(s) \o StripSpaces(Tail(s))

PHsnoKey(sno) == S(toLowerCase(StripSpaces(StripDotRuns(String(sno)))))

\* str.replace(/mm$/i, '')
PHStripMm(str) ==
    IF endsWith(toLowerCase(str), "mm") THEN SubSeq(str, 1, Len(str) - 2) ELSE str

SECTION_CATEGORIES == <<
    <<"1", "Labour Rates">>, <<"2", "Earth Work">>,
    <<"3", "Rock Cutting & Blasting">>, <<"4", "Loading & Unloading">>,
    <<"5", "Loading & Unloading">>, <<"6", "Loading & Unloading">>,
    <<"7", "Loading & Unloading">>, <<"8a", "Pipe Laying">>,
    <<"8b", "Pipe Laying">>, <<"9a", "Pipe Jointing">>,
    <<"9b", "Pipe Jointing">>, <<"10", "Pipe Jointing">>,
    <<"11a", "RCC Pipe Laying">>, <<"11b", "RCC Pipe Laying">>,
    <<"12", "GI / PVC / HDPE Pipe Laying">>, <<"13", "AC Pressure Pipe Laying">>,
    <<"14", "AC Pressure Pipe Jointing">>, <<"15", "Stoneware Pipe Laying">>,
    <<"16", "PVC Pipe Laying & Testing">>, <<"17", "Valve Labour">>,
    <<"18a", "Air Valve Labour">>, <<"18b", "Air Valve Labour">>,
    <<"19", "Fire Hydrant Labour">>, <<"20", "Pipe Uprooting">>,
    <<"21", "RCC Pipe Uprooting">>, <<"22", "GI/PVC/HDPE Pipe Removal">>,
    <<"23", "Pipe Cutting">>, <<"24", "Pipe Cutting">>,
    <<"25", "Drilling & Tapping">>, <<"26", "Road Cutting">>,
    <<"27", "Dewatering">>, <<"28", "Shoring & Strutting">>,
    <<"29", "Barricading">>, <<"30", "Underwater Excavation">>,
    <<"31", "Infiltration Gallery">>, <<"32", "Infiltration Gallery">>,
    <<"33", "Centering & Scaffolding">>, <<"34", "Lift & Delift">>,
    <<"35", "Fixtures Labour">>, <<"36", "Sanitary Fixtures Labour">>,
    <<"37", "Sanitary Fixtures Labour">>, <<"38", "Sanitary Fixtures Labour">>,
    <<"39", "Sanitary Fixtures Labour">>, <<"40", "Trench Refilling">>,
    <<"41a", "Miscellaneous">>, <<"41b", "Miscellaneous">>,
    <<"42", "Silt Removal">>, <<"43", "Pipe Conveyance">>,
    <<"44", "Pipe Conveyance">>, <<"45", "Pipe Conveyance">>,
    <<"46", "Pipe Conveyance">>, <<"47", "Pipe Conveyance">>,
    <<"48", "Well Sinking">>, <<"49", "Well Sinking">>,
    <<"50", "Well Excavation">>, <<"51", "OHSR / ELSR Rates (Kilo Litres)">>,
    <<"52", "OHSR / ELSR Rates (Litres)">>, <<"53", "Filtration Plant Construction">> >>

PHNormalize(row) ==
    [ sno  |-> TrimSno(row[1]),
      desc |-> cleanStr(row[2]),
      unit |-> cleanStr(row[3]),
      rate |-> PHparseRate(row[4]) ]

\* the descriptive-row branch (lines 266-281), on the lower-cased text:
\* /DIAMETER OF PIPE/i, /DIA (in|of) (mm|pipe)/i, /G\.I\. PIPES/i, /PVC\/HDPE pipes/i
PHDescriptiveRole(d) ==
    IF \/ includes(d, "diameter of pipe")
       \/ includes(d, "dia in mm") \/ includes(d, "dia in pipe")
       \/ includes(d, "dia of mm") \/ includes(d, "dia of pipe")
      THEN "context"
    ELSE IF includes(d, "g.i. pipes") \/ includes(d, "pvc/hdpe pipes")
      THEN "auto"
    ELSE "ignored"

\* which branch of the loop body of parsePublicHealthXLSX a normalised row takes
PHRole(cur, r) ==
    IF ~Truthy(r.sno) /\ ~Truthy(r.desc) /\ ~Truthy(r.unit) /\ r.rate = NULL
      THEN "blank"
    ELSE IF ~Truthy(r.sno) /\ r.unit = NULL /\ r.rate = NULL /\ isNoteRow(r.desc)
      THEN "note"
    ELSE IF /\ ~Truthy(r.sno) /\ r.unit = NULL /\ r.rate = NULL
            /\ Truthy(r.desc) /\ startsWith(r.desc.s, " ")
      THEN "continuation"
    ELSE IF PHisSectionHeader(r.sno, r.desc, r.unit, r.rate)
      THEN "section"
    ELSE IF isSubHeader(r.sno, r.desc, r.unit, r.rate) /\ cur # 0
      THEN "subsection"
    ELSE IF PHisFlatItem(r.sno)
      THEN "flat"
    ELSE IF cur # 0 /\ Truthy(r.unit) /\ r.rate # NULL
      THEN "rateItem"
    ELSE IF cur # 0 /\ r.rate # NULL /\ ~Truthy(r.unit)
      THEN "rateNoUnit"
    ELSE IF cur # 0 /\ Truthy(r.desc) /\ ~Truthy(r.sno)
      THEN PHDescriptiveRole(toLowerCase(r.desc.s))
    ELSE "ignored"

PHRowRole(st, row) == PHRole(st.cur, PHNormalize(row))

\* a Section object of publichealth.js
PHSection(id, sno, key, category, desc, unit, rate) ==
    [ id           |-> N(100 * id),
      item_no      |-> sno,
      item_key     |-> key,
      category     |-> category,
      title        |-> desc,
      unit         |-> unit,
      rate         |-> rate,
      sub_sections |-> <<>>,
      items        |-> <<>>,
      notes        |-> <<>> ]

\* SECTION_CATEGORIES[sno] || SECTION_CATEGORIES[snoKey] || 'General'
PHCategory(sno, key) ==
    Or(Or(Lookup(SECTION_CATEGORIES, String(sno)),
          Lookup(SECTION_CATEGORIES, key.s)),
       S("General"))

\* SECTION_CATEGORIES[snoKey] || 'General'
PHFlatCategory(key) == Or(Lookup(SECTION_CATEGORIES, key.s), S("General"))

PHOpenSection(st, sec) == [OpenSection(st, sec) EXCEPT !.sid = st.sid + 1]

\* the section-header branch (lines 174-193)
PHSectionHeader(st, r) ==
    PHOpenSection(st,
        PHSection(st.sid + 1, r.sno, PHsnoKey(r.sno),
                  PHCategory(r.sno, PHsnoKey(r.sno)),
                  r.desc, Or(r.unit, NULL), r.rate))

PHFlatKey(sno) == S(toLowerCase(StripEachSpaceOrDot(String(sno))))

\* the flat-item branch (lines 206-225)
PHFlatItem(st, r) ==
    PHOpenSection(st,
        PHSection(st.sid + 1, r.sno, PHFlatKey(r.sno),
                  PHFlatCategory(PHFlatKey(r.sno)), r.desc, r.unit, r.rate))

\* a RateItem object of publichealth.js
PHItem(st, dimension, unit, rate) ==
    [ id              |-> N(100 * (st.iid + 1)),
      section_item_no |-> st.sections[st.cur].item_no,
      dimension       |-> dimension,
      unit            |-> unit,
      rate            |-> rate,
      rate_type       |-> typeofNumber(rate) ]

\* the diameter/range branch (lines 227-244)
PHRateItem(st, r) ==
    [PushItem(st, PHItem(st,
                    IF Truthy(r.desc) THEN S(trim(PHStripMm(r.desc.s))) ELSE NULL,
                    S(trim(r.unit.s)), r.rate))
       EXCEPT !.iid = st.iid + 1]

\* a variant of the rate-without-unit branch that pushes the item without
\* counting it
PHRateNoUnitUncounted(st, r) ==
    [st EXCEPT !.sections[st.cur].items = Append(@, PHItem(st, r.desc, NULL, r.rate))]

\* the rate-without-unit branch (lines 246-264): always currentSection.items
PHRateNoUnit(st, r) ==
    LET items == st.sections[st.cur].items
        n == Len(items)
    IN  IF n > 0 /\ ~Truthy(items[n].rate)
          THEN [st EXCEPT !.sections[st.cur].items[n].rate = r.rate]
        ELSE [st EXCEPT
                !.sections[st.cur].items = Append(@, PHItem(st, r.desc, NULL, r.rate)),
                !.iid = st.iid + 1]

\* the branch `role` of the loop body, on the normalised row r
PHBranch(st, r, role) ==
    CASE role = "section" -> PHSectionHeader(st, r)
      [] role = "subsection" ->
           OpenSubSection(st, [ sub_id      |-> S(trim(r.sno.s)),
                                description |-> r.desc,
                                items       |-> <<>> ])
      [] role = "flat" -> PHFlatItem(st, r)
      [] role = "rateItem" -> PHRateItem(st, r)
      [] role = "rateNoUnit" -> PHRateNoUnit(st, r)
      [] role = "auto" -> OpenSubSection(st, AutoSubSection(st, r.desc))
      [] OTHER -> st

PHStepNormalized(st, r) == PHBranch(st, r, PHRole(st.cur, r))

\* one pass of the loop body of parsePublicHealthXLSX
PublicHealthStep(st, row) == PHStepNormalized(st, PHNormalize(row))

-----------------------------------------------------------------------------
(* One run of a script *)

Programs == {"parseExcel", "parsePublicHealthXLSX"}

Locals ==
    [ sections |-> sections, cur |-> currentSection, sub |-> currentSubSection,
      sid |-> sectionIdCounter, iid |-> itemIdCounter ]

SetLocals(st) ==
    /\ sections' = st.sections
    /\ currentSection' = st.cur
    /\ currentSubSection' = st.sub
    /\ sectionIdCounter' = st.sid
    /\ itemIdCounter' = st.iid

\* a variant in which sectionIdCounter is not reset at entry
LocalsWithOldCounter ==
    [ sections |-> <<>>, cur |-> 0, sub |-> NoSubSection, sid |-> 1, iid |-> 0 ]

\* the locals as the function sets them at entry
FreshLocals ==
    [ sections |-> <<>>, cur |-> 0, sub |-> NoSubSection, sid |-> 0, iid |-> 0 ]

LoopBody(p, st, row) ==
    IF p = "parseExcel" THEN ParseExcelStep(st, row) ELSE PublicHealthStep(st, row)

\* for (let i = ...; i < rows.length; i++) { body }, with i counted from 1
RECURSIVE LoopFrom(_, _, _, _)
LoopFrom(p, rws, i, st) ==
    IF i > Len(rws) THEN st
    ELSE LoopFrom(p, rws, i + 1, LoopBody(p, st, rws[i]))

\* a whole call of parser p on the sheet rws: its list of Sections
Parse(p, rws) == LoopFrom(p, rws, 3, FreshLocals).sections

\* a variant of the title-row step that runs the loop body on the row
ReadTitleRow(row) ==
    /\ Len(rows) < 2
    /\ rows' = Append(rows, row)
    /\ SetLocals(LoopBody(prog, Locals, row))
    /\ UNCHANGED <<prog, ssr_metadata, ssr_sections, proc, converter, sheetParser, seeder>>

Init ==
    /\ prog \in Programs
    /\ rows = <<>>
    /\ sections = <<>>
    /\ currentSection = 0
    /\ currentSubSection = NoSubSection
    /\ sectionIdCounter = 0
    /\ itemIdCounter = 0
    /\ ssr_metadata = <<>>
    /\ ssr_sections = <<>>
    /\ proc = [ pc |-> "parseExcel", err |-> "none", connected |-> FALSE,
                closes |-> 0, indexes |-> 0, exit |-> <<>> ]
    /\ chunks = <<>>
    /\ primary = NULL
    /\ subItem = NULL
    /\ output = NULL
    /\ sheetItems = <<>>
    /\ current = NULL
    /\ finalData = <<>>
    /\ LabourRate = <<>>

\* rows[0] and rows[1]: both loops start at i = 2
SkipTitleRow(row) ==
    /\ Len(rows) < 2
    /\ rows' = Append(rows, row)
    /\ UNCHANGED <<prog, sections, currentSection, currentSubSection,
                   sectionIdCounter, itemIdCounter, ssr_metadata, ssr_sections, proc, converter, sheetParser, seeder>>

\* a variant of the loop that runs the body on a row without moving past it
ParseExcelRowAgain(row) ==
    /\ prog = "parseExcel"
    /\ Len(rows) > 2
    /\ row = rows[Len(rows)]
    /\ SetLocals(ParseExcelStep(Locals, row))
    /\ UNCHANGED <<prog, rows, ssr_metadata, ssr_sections, proc, converter, sheetParser, seeder>>

\* parseExcel: the loop body on rows[i], i >= 2
ParseExcelRow(row) ==
    /\ prog = "parseExcel"
    /\ Len(rows) >= 2
    /\ Len(rows) < MaxRows
    /\ rows' = Append(rows, row)
    /\ SetLocals(ParseExcelStep(Locals, row))
    /\ UNCHANGED <<prog, ssr_metadata, ssr_sections, proc, converter, sheetParser, seeder>>

\* parsePublicHealthXLSX: the loop body on rows[i], i >= 2
PublicHealthRow(row) ==
    /\ prog = "parsePublicHealthXLSX"
    /\ Len(rows) >= 2
    /\ Len(rows) < MaxRows
    /\ rows' = Append(rows, row)
    /\ SetLocals(PublicHealthStep(Locals, row))
    /\ UNCHANGED <<prog, ssr_metadata, ssr_sections, proc, converter, sheetParser, seeder>>

Next ==
    \/ \E i \in 1..Len(HeaderRows) : SkipTitleRow(HeaderRows[i])
    \/ \E i \in 1..Len(Rows) : ParseExcelRow(Rows[i])
    \/ \E i \in 1..Len(Rows) : PublicHealthRow(Rows[i])

Spec == Init /\ [][Next]_vars

\* A second sheet: rows at the edges of the row rules (a fractional item
\* number, an item number that fits no pattern, texts that begin like a note
\* or with blanks, a rate of 0), below one fixed pair of title rows.
EdgeRows == <<
    <<NULL, NULL, NULL, NULL>>,
    <<S("3 a."), S("Excavation"), NULL, NULL>>,
    <<N(150), S("Fractional"), NULL, NULL>>,
    <<N(200), S("Earth work"), S("cum"), N(5000)>>,
    <<S("a"), S("G.I. PIPES"), NULL, NULL>>,
    <<NULL, S("PVC/HDPE pipes"), NULL, NULL>>,
    <<NULL, S("NOTE: G.I. PIPES"), NULL, NULL>>,
    <<NULL, S("     G.I. PIPES"), NULL, NULL>>,
    <<NULL, S("100"), S("rm"), N(0)>>,
    <<NULL, NULL, NULL, N(24550)>>,
    <<NULL, NULL, NULL, S("As per Common SSR")>>,
    <<S("x1"), S("free text"), NULL, NULL>> >>

EdgeNext ==
    \/ SkipTitleRow(HeaderRows[1])
    \/ \E i \in 1..Len(EdgeRows) : ParseExcelRow(EdgeRows[i])
    \/ \E i \in 1..Len(EdgeRows) : PublicHealthRow(EdgeRows[i])

EdgeSpec == Init /\ [][EdgeNext]_vars

\* the loop always goes on to the next row while rows are left
EdgeFairSpec == EdgeSpec /\ WF_vars(EdgeNext)

-----------------------------------------------------------------------------
(* storeToMongoDB and main of src/unnamed/part_000 *)

\* Most runs of the importer explored on one database.
MaxImports == 2

RECURSIVE SumItems(_)
SumItems(lists) ==
    IF lists = <<>> THEN 0 ELSE Len(Head(lists).items) + SumItems(Tail(lists))

\* sections.reduce((sum, s) => sum + s.items.length + (items of s.sub_sections))
RECURSIVE TotalItems(_)
TotalItems(secs) ==
    IF secs = <<>> THEN 0
    ELSE Len(Head(secs).items) + SumItems(Head(secs).sub_sections)
           + TotalItems(Tail(secs))

\* the document of one import; insertOne gives it an _id no other has
MetaDoc(id, secs) ==
    [ _id            |-> id,
      title          |-> "Public Health Items - Schedule of Standard Rates",
      year           |-> "2005-06",
      total_sections |-> Len(secs),
      total_items    |-> TotalItems(secs) ]

\* { import_id: importId, metadata: {...}, ...sec }
SectionDoc(importId, sec) ==
    [ import_id    |-> importId,
      metadata     |-> [ title |-> "Public Health Items - Schedule of Standard Rates",
                         year  |-> "2005-06" ],
      item_no      |-> sec.item_no,
      item_key     |-> sec.item_key,
      category     |-> sec.category,
      title        |-> sec.title,
      unit         |-> sec.unit,
      rate         |-> sec.rate,
      rate_type    |-> sec.rate_type,
      sub_sections |-> sec.sub_sections,
      items        |-> sec.items ]

\* sections.map(sec => ({ import_id, metadata, ...sec }))
SectionDocs(importId, secs) == [k \in 1..Len(secs) |-> SectionDoc(importId, secs[k])]

HasImportId(id, doc) == doc.import_id = id

\* secCol.deleteMany({ import_id: importId })
DeleteMany(col, id) == SelectSeq(col, LAMBDA doc : ~HasImportId(id, doc))

\* the _id insertOne gives the new metadata document
NewObjectId == Len(ssr_metadata) + 1

\* one run of main once parseExcel has returned `sections`:
\* insertOne(metaDoc), deleteMany({import_id}), insertMany(docs)
StoreToMongoDB ==
    /\ prog = "parseExcel"
    /\ Len(ssr_metadata) < MaxImports
    /\ ssr_metadata' = Append(ssr_metadata, MetaDoc(NewObjectId, sections))
    /\ ssr_sections' =
          DeleteMany(ssr_sections, NewObjectId) \o SectionDocs(NewObjectId, sections)
    /\ UNCHANGED <<prog, rows, sections, currentSection, currentSubSection,
                   sectionIdCounter, itemIdCounter, proc, converter, sheetParser, seeder>>

\* the sheets the importer is run on
ImportRows == <<
    <<N(100), S("RATES OF LABOUR"), NULL, NULL>>,
    <<S("11.a."), S("RCC PIPES"), NULL, NULL>>,
    <<S("a"), S("G.I. PIPES"), NULL, NULL>>,
    <<NULL, S("80"), S("rm"), N(12000)>> >>

ImportInit == Init /\ prog = "parseExcel"

\* main: parseExcel(INPUT_FILE), then storeToMongoDB(sections); the sheet is
\* the same file at every run, so no row is read once an import is stored
ImportNext ==
    \/ ssr_metadata = <<>> /\ SkipTitleRow(HeaderRows[1])
    \/ \E i \in 1..Len(ImportRows) :
          ssr_metadata = <<>> /\ ParseExcelRow(ImportRows[i])
    \/ StoreToMongoDB

ImportSpec == ImportInit /\ [][ImportNext]_vars

-----------------------------------------------------------------------------
(* storeToMongoDB await by await.  Each await either resolves or throws;   *)
(* a throw inside the try block runs the finally block and then rejects    *)
(* the promise main awaits.                                                *)

\* the createIndex calls of lines 336-345
Indexes == 6

\* an await of the try block throws: control goes to the finally block
Throw(step) == [proc EXCEPT !.pc = "finally", !.err = step]

\* const client = new MongoClient(MONGO_URI); await client.connect()
client_connect ==
    /\ proc.pc = "parseExcel"
    /\ prog = "parseExcel"
    /\ \/ proc' = [proc EXCEPT !.pc = "insertOne", !.connected = TRUE]
       \/ proc' = Throw("connect")
    /\ UNCHANGED <<prog, rows, sections, currentSection, currentSubSection,
                   sectionIdCounter, itemIdCounter, ssr_metadata, ssr_sections, converter, sheetParser, seeder>>

\* const metaResult = await metaCol.insertOne(metaDoc)
metaCol_insertOne ==
    /\ proc.pc = "insertOne"
    /\ \/ /\ ssr_metadata' = Append(ssr_metadata, MetaDoc(NewObjectId, sections))
          /\ proc' = [proc EXCEPT !.pc = "deleteMany"]
       \/ /\ proc' = Throw("insertOne")
          /\ UNCHANGED ssr_metadata
    /\ UNCHANGED <<prog, rows, sections, currentSection, currentSubSection,
                   sectionIdCounter, itemIdCounter, ssr_sections, converter, sheetParser, seeder>>

\* importId = metaResult.insertedId, the _id of the last metadata document
ImportId == Len(ssr_metadata)

\* await secCol.deleteMany({ import_id: importId })
secCol_deleteMany ==
    /\ proc.pc = "deleteMany"
    /\ \/ /\ ssr_sections' = DeleteMany(ssr_sections, ImportId)
          /\ proc' = [proc EXCEPT !.pc = "insertMany"]
       \/ /\ proc' = Throw("deleteMany")
          /\ UNCHANGED ssr_sections
    /\ UNCHANGED <<prog, rows, sections, currentSection, currentSubSection,
                   sectionIdCounter, itemIdCounter, ssr_metadata, converter, sheetParser, seeder>>

\* await secCol.insertMany(docs, { ordered: true }): an ordered insert that
\* fails has stored the documents before the failing one
secCol_insertMany ==
    /\ proc.pc = "insertMany"
    /\ \/ /\ ssr_sections' = ssr_sections \o SectionDocs(ImportId, sections)
          /\ proc' = [proc EXCEPT !.pc = "createIndex"]
       \/ /\ \E n \in 0..Len(sections) :
                ssr_sections' =
                    ssr_sections \o SubSeq(SectionDocs(ImportId, sections), 1, n)
          /\ proc' = Throw("insertMany")
    /\ UNCHANGED <<prog, rows, sections, currentSection, currentSubSection,
                   sectionIdCounter, itemIdCounter, ssr_metadata, converter, sheetParser, seeder>>

\* await secCol.createIndex(...), six times; then printSampleQueries and return
secCol_createIndex ==
    /\ proc.pc = "createIndex"
    /\ \/ /\ proc.indexes < Indexes
          /\ \/ proc' = [proc EXCEPT !.indexes = @ + 1]
             \/ proc' = Throw("createIndex")
       \/ /\ proc.indexes = Indexes
          /\ proc' = [proc EXCEPT !.pc = "finally"]
    /\ UNCHANGED <<prog, rows, sections, currentSection, currentSubSection,
                   sectionIdCounter, itemIdCounter, ssr_metadata, ssr_sections, converter, sheetParser, seeder>>

\* a variant in which close() is the last statement of the try block, so
\* that it runs only when nothing has thrown
client_closeInTry ==
    /\ proc.pc = "finally"
    /\ proc' = IF proc.err = "none"
               THEN [proc EXCEPT !.pc = "settled", !.connected = FALSE,
                                 !.closes = @ + 1]
               ELSE [proc EXCEPT !.pc = "settled"]
    /\ UNCHANGED <<prog, rows, sections, currentSection, currentSubSection,
                   sectionIdCounter, itemIdCounter, ssr_metadata, ssr_sections, converter, sheetParser, seeder>>

\* finally { await client.close(); }: then the promise of storeToMongoDB
\* settles, resolved or rejected with the error thrown
client_close ==
    /\ proc.pc = "finally"
    /\ proc' = [proc EXCEPT !.pc = "settled", !.connected = FALSE,
                            !.closes = @ + 1]
    /\ UNCHANGED <<prog, rows, sections, currentSection, currentSubSection,
                   sectionIdCounter, itemIdCounter, ssr_metadata, ssr_sections, converter, sheetParser, seeder>>

\* main resumes after `await storeToMongoDB(sections)`: it prints and
\* returns, or main().catch calls process.exit(1)
main_settled ==
    /\ proc.pc = "settled"
    /\ proc' = [proc EXCEPT !.pc = "exited",
                            !.exit = IF proc.err = "none" THEN <<0>> ELSE <<1>>]
    /\ UNCHANGED <<prog, rows, sections, currentSection, currentSubSection,
                   sectionIdCounter, itemIdCounter, ssr_metadata, ssr_sections, converter, sheetParser, seeder>>

\* the continuations of main from the call of storeToMongoDB on
StoreSteps ==
    \/ client_connect
    \/ metaCol_insertOne
    \/ secCol_deleteMany
    \/ secCol_insertMany
    \/ secCol_createIndex
    \/ client_close
    \/ main_settled

\* one run of main on one sheet
StoreNext ==
    \/ proc.pc = "parseExcel" /\ SkipTitleRow(HeaderRows[1])
    \/ \E i \in 1..Len(ImportRows) :
          proc.pc = "parseExcel" /\ ParseExcelRow(ImportRows[i])
    \/ StoreSteps

StoreSpec == ImportInit /\ [][StoreNext]_vars

\* the event loop runs every continuation that is ready
StoreFairSpec == StoreSpec /\ WF_vars(StoreSteps)

-----------------------------------------------------------------------------
(* parseExcel on rows that more than one rule of the loop body could take *)

PrecedenceRows == <<
    <<N(1200), S("Pipes"), NULL, NULL>>,
    <<NULL, S("G.I. PIPES"), S("rm"), N(10000)>>,
    <<NULL, S("Providing PVC/HDPE pipes"), S("rm"), N(24550)>>,
    <<NULL, S("NOTE: G.I. PIPES"), S("rm"), N(10000)>>,
    <<NULL, S("15 mm"), S("rm"), N(10000)>>,
    <<S("a"), S("G.I. PIPES"), NULL, NULL>> >>

PrecedenceNext ==
    \/ SkipTitleRow(HeaderRows[1])
    \/ \E i \in 1..Len(PrecedenceRows) : ParseExcelRow(PrecedenceRows[i])

PrecedenceSpec == ImportInit /\ [][PrecedenceNext]_vars

-----------------------------------------------------------------------------
(* src/unnamed/part_001: convertToJSON.  A row is <<c0, c1, c2, c3, c4>>,  *)
(* the five cells the script reads of the eight it pads every row to.      *)
(* Texts the script always holds as strings are TLA+ strings here; cells   *)
(* and fields that may be null are JavaScript values.                      *)

ROMAN_NUMERALS ==
    { "i", "ii", "iii", "iv", "v", "vi", "vii", "viii", "ix", "x",
      "xi", "xii", "xiii", "xiv", "xv", "xvi", "xvii", "xviii", "xix", "xx",
      "xxi", "xxii", "xxiii", "xxiv", "xxv" }

LABOUR_ROLES == <<
    "plumber 1st class", "plumber 2nd class",
    "plumber i class", "plumber ii class",
    "man mazdoor", "mazdoor",
    "mason 1st class", "mason 2nd class",
    "mason i class", "mason ii class",
    "fitter i class", "fitter ii class",
    "fitters i class", "fitters ii class",
    "carpenter 1st class", "carpenter 2nd class" >>

UNIT_MAP == <<
    <<"rm", "rm">>, <<"rmt", "rm">>, <<"rmt.", "rm">>, <<"metre", "rm">>,
    <<"meter", "rm">>, <<"mtrs", "rm">>, <<"mtr", "rm">>, <<"m", "rm">>,
    <<"kg", "kg">>, <<"kgs", "kg">>, <<"quintal", "q">>, <<"q", "q">>,
    <<"cum", "cum">>, <<"cu.m", "cum">>, <<"cft", "cft">>,
    <<"sqm", "sqm">>, <<"sq.m", "sqm">>, <<"day", "day">>, <<"days", "day">>,
    <<"nos", "nos">>, <<"no", "nos">>, <<"no.", "nos">>, <<"each", "nos">>,
    <<"litre", "litre">>, <<"ltr", "litre">>, <<"lts.", "litre">>,
    <<"lts", "litre">>, <<"lt", "litre">>, <<"joint", "joint">>,
    <<"joints", "joint">>, <<"ls", "ls">>, <<"l.s", "ls">>,
    <<"mt", "mt">>, <<"hour", "hour">>, <<"hr", "hour">> >>

\* the text `word` stands in str at index i
At(str, i, word) ==
    /\ i >= 1
    /\ i + Len(word) - 1 <= Len(str)
    /\ SubSeq(str, i, i + Len(word) - 1) = word

\* s = v => (v == null ? '' : String(v).trim())
CellText(v) == IF v = NULL THEN "" ELSE trim(String(v))

\* /^-?\d+(\.\d+)?$/ : i is the index after the sign, j the one after the digits
NumericFrom(str, i, j) ==
    /\ j > i
    /\ \/ j = Len(str) + 1
       \/ /\ Ch(str, j) = "."
          /\ SkipDigits(str, j + 1) > j + 1
          /\ SkipDigits(str, j + 1) = Len(str) + 1

NumericRe(str, i) == NumericFrom(str, i, SkipDigits(str, i))

isNum(v) ==
    IF v = NULL THEN FALSE
    ELSE IF IsNum(v) THEN TRUE
    ELSE IF ~IsStr(v) THEN FALSE
    ELSE NumericRe(trim(v.s), IF Ch(trim(v.s), 1) = "-" THEN 2 ELSE 1)

\* n = parseFloat(v); isNaN(n) ? null : n
toFloat(v) ==
    IF v = NULL THEN NULL
    ELSE IF IsNum(v) THEN v
    ELSE IF parseFloat(TrimStart(v.s)) = NaN THEN NULL
    ELSE parseFloat(TrimStart(v.s))

\* k = s(raw).toLowerCase().replace(/\.$/, ''); k ? (UNIT_MAP[k] ?? k) : null
UnitOfKey(k) ==
    IF k = "" THEN NULL
    ELSE IF Lookup(UNIT_MAP, k) = Undefined THEN S(k)
    ELSE Lookup(UNIT_MAP, k)

StripLastDot(str) ==
    IF endsWith(str, ".") THEN SubSeq(str, 1, Len(str) - 1) ELSE str

normUnit(raw) == UnitOfKey(StripLastDot(toLowerCase(CellText(raw))))

RECURSIVE SkipUpper(_, _)
SkipUpper(str, i) ==
    IF i <= Len(str) /\ IsUpper(Ch(str, i)) THEN SkipUpper(str, i + 1) ELSE i

\* /^PHE-[A-Z]+-\d+[A-Z]?$/ : j is the index after the letters, k after the digits
PheFrom(str, j, k) ==
    /\ j > 5
    /\ Ch(str, j) = "-"
    /\ k > j + 1
    /\ \/ k = Len(str) + 1
       \/ k = Len(str) /\ IsUpper(Ch(str, k))

RE_PHE(str) ==
    /\ startsWith(str, "PHE-")
    /\ PheFrom(str, SkipUpper(str, 5), SkipDigits(str, SkipUpper(str, 5) + 1))

\* /^[A-Z]$/
RE_ALPHA_UP(str) == Len(str) = 1 /\ IsUpper(str)

\* /rate\s+per/i, on the lower-cased text
RE_RATE(d) ==
    \E i \in 1..Len(d) :
        /\ At(d, i, "rate")
        /\ IsSpace(Ch(d, i + 4))
        /\ At(d, SkipSpaces(d, i + 4), "per")

\* /weight\s*(of|=)/i, on the lower-cased text
RE_WEIGHT(d) ==
    \E i \in 1..Len(d) :
        /\ At(d, i, "weight")
        /\ \/ At(d, SkipSpaces(d, i + 6), "of")
           \/ Ch(d, SkipSpaces(d, i + 6)) = "="

\* /^\s*\([a-z]\)/i
RE_COMP(str) ==
    /\ Ch(str, SkipSpaces(str, 1)) = "("
    /\ IsLetter(Ch(str, SkipSpaces(str, 1) + 1))
    /\ Ch(str, SkipSpaces(str, 1) + 2) = ")"

\* /^note\s*:/i, on the lower-cased text
RE_NOTE(d) == startsWith(d, "note") /\ Ch(d, SkipSpaces(d, 5)) = ":"

\* /sundries/i, on the lower-cased text
RE_SUNDRIES(d) == includes(d, "sundries")

\* classifyRow once s0, s1, s2 and s(c3) are taken
ClassifyTexts(s0, s1, s2, s3, c4, rowIndex) ==
    IF rowIndex <= 4 THEN "FILE_HEADER"
    ELSE IF s0 = "" /\ s1 = "" /\ s2 = "" /\ s3 = "" /\ CellText(c4) = "" THEN "EMPTY"
    ELSE IF includes(toLowerCase(s0), "common data") THEN "COMMON_DATA_HEADER"
    ELSE IF RE_PHE(s0) THEN "PRIMARY_ITEM"
    ELSE IF s1 # "" /\ toLowerCase(s1) \in ROMAN_NUMERALS THEN "SUB_ITEM_ROMAN"
    ELSE IF s1 # "" /\ RE_ALPHA_UP(s1) THEN "SUB_ITEM_ALPHA"
    ELSE IF s2 # "" /\ RE_RATE(toLowerCase(s2)) THEN "RATE_FORMULA"
    ELSE IF s2 # "" /\ RE_WEIGHT(toLowerCase(s2)) THEN "WEIGHT_CALC"
    ELSE IF s2 # "" /\ RE_SUNDRIES(toLowerCase(s2)) /\ isNum(c4) THEN "SUNDRY"
    ELSE IF s2 # "" /\ s3 # "" /\ isNum(c4) THEN "INPUT_ROW"
    ELSE IF s2 # "" /\ s3 # "" /\ ~isNum(c4) THEN "INPUT_NO_QTY"
    ELSE IF s2 # "" /\ RE_COMP(s2) THEN "COMPUTATION"
    ELSE IF s2 # "" /\ RE_NOTE(toLowerCase(s2)) THEN "NOTE"
    ELSE IF s2 # "" THEN "TEXT"
    ELSE "OTHER"

classifyRow(row, rowIndex) ==
    ClassifyTexts(CellText(row[1]), CellText(row[2]), CellText(row[3]),
                  CellText(row[4]), row[5], rowIndex)

\* \w
IsWord(c) == IsLetter(c) \/ IsDigit(c) \/ c = "_"

RECURSIVE SkipWord(_, _)
SkipWord(str, i) ==
    IF i <= Len(str) /\ IsWord(Ch(str, i)) THEN SkipWord(str, i + 1) ELSE i

\* the index after \d+(?:\.\d+)? read from a digit at i
NumberEnd(str, i) ==
    IF Ch(str, SkipDigits(str, i)) = "." /\ IsDigit(Ch(str, SkipDigits(str, i) + 1))
    THEN SkipDigits(str, SkipDigits(str, i) + 1)
    ELSE SkipDigits(str, i)

\* the least index of 1..Len(str) at which Matches holds, 0 when there is none
FirstMatch(str, Matches(_)) ==
    IF \E i \in 1..Len(str) : Matches(i)
    THEN CHOOSE i \in 1..Len(str) : Matches(i) /\ \A j \in 1..(i - 1) : ~Matches(j)
    ELSE 0

\* RE_DIA = /(\d+(?:\.\d+)?)\s*mm\s+dia/i matches the lower-cased text d at i
DiaAt(d, i) ==
    /\ IsDigit(Ch(d, i))
    /\ At(d, SkipSpaces(d, NumberEnd(d, i)), "mm")
    /\ IsSpace(Ch(d, SkipSpaces(d, NumberEnd(d, i)) + 2))
    /\ At(d, SkipSpaces(d, SkipSpaces(d, NumberEnd(d, i)) + 2), "dia")

\* (v >= 15 && v <= 2000) ? v : null
DiameterInRange(v) == IF v.x100 >= 1500 /\ v.x100 <= 200000 THEN v ELSE NULL

DiameterAt(d, i) ==
    IF i = 0 THEN NULL
    ELSE DiameterInRange(parseFloat(SubSeq(d, i, NumberEnd(d, i) - 1)))

extractDiameter(text) ==
    DiameterAt(toLowerCase(text), FirstMatch(toLowerCase(text), LAMBDA i : DiaAt(toLowerCase(text), i)))

\* RE_WT = /=\s*(\d+(?:\.\d+)?)\s*kgs?\b/i matches d at i; k is the index of "kg"
WtEnds(d, k) ==
    /\ At(d, k, "kg")
    /\ \/ ~IsWord(Ch(d, k + 2))
       \/ Ch(d, k + 2) = "s" /\ ~IsWord(Ch(d, k + 3))

WtAt(d, i) ==
    /\ Ch(d, i) = "="
    /\ IsDigit(Ch(d, SkipSpaces(d, i + 1)))
    /\ WtEnds(d, SkipSpaces(d, NumberEnd(d, SkipSpaces(d, i + 1))))

\* RE_SPAN = /(\d+)\s*m\s+length/i matches d at i; k is the index of "m"
SpanEnds(d, k) ==
    /\ Ch(d, k) = "m"
    /\ IsSpace(Ch(d, k + 1))
    /\ At(d, SkipSpaces(d, k + 1), "length")

SpanAt(d, i) == IsDigit(Ch(d, i)) /\ SpanEnds(d, SkipSpaces(d, SkipDigits(d, i)))

\* { value: parseFloat(mw[1]), unit: 'kg', span_m: ms ? parseInt(ms[1], 10) : null }
WeightAt(d, w, sp) ==
    IF w = 0 THEN NULL
    ELSE [ value  |-> parseFloat(SubSeq(d, SkipSpaces(d, w + 1),
                                        NumberEnd(d, SkipSpaces(d, w + 1)) - 1)),
           unit   |-> "kg",
           span_m |-> IF sp = 0 THEN NULL
                      ELSE N(100 * DigitsVal(SubSeq(d, sp, SkipDigits(d, sp) - 1))) ]

WeightOfLower(d) ==
    WeightAt(d, FirstMatch(d, LAMBDA i : WtAt(d, i)), FirstMatch(d, LAMBDA i : SpanAt(d, i)))

extractWeight(text) == WeightOfLower(toLowerCase(text))

\* RE_RATE_F = /rate\s+per\s+(\w+(?:\s+\w+)?)\s*(?:=\s*([a-z]\/(\d+)))?/i
\* the index of the first word after "rate per " when the text matches at i, else 0
RateWordAt(d, i) ==
    IF /\ At(d, i, "rate")
       /\ IsSpace(Ch(d, i + 4))
       /\ At(d, SkipSpaces(d, i + 4), "per")
       /\ IsSpace(Ch(d, SkipSpaces(d, i + 4) + 3))
       /\ IsWord(Ch(d, SkipSpaces(d, SkipSpaces(d, i + 4) + 3)))
    THEN SkipSpaces(d, SkipSpaces(d, i + 4) + 3)
    ELSE 0

\* the index after (\w+(?:\s+\w+)?) read from p
PerEnd(d, p) ==
    IF /\ IsSpace(Ch(d, SkipWord(d, p)))
       /\ IsWord(Ch(d, SkipSpaces(d, SkipWord(d, p))))
    THEN SkipWord(d, SkipSpaces(d, SkipWord(d, p)))
    ELSE SkipWord(d, p)

\* the index of the letter of (?:=\s*([a-z]\/(\d+)))? read from e, else 0
FormulaAt(d, e) ==
    IF /\ Ch(d, SkipSpaces(d, e)) = "="
       /\ IsLetter(Ch(d, SkipSpaces(d, SkipSpaces(d, e) + 1)))
       /\ Ch(d, SkipSpaces(d, SkipSpaces(d, e) + 1) + 1) = "/"
       /\ IsDigit(Ch(d, SkipSpaces(d, SkipSpaces(d, e) + 1) + 2))
    THEN SkipSpaces(d, SkipSpaces(d, e) + 1)
    ELSE 0

\* { per: m[1].trim().toLowerCase(), formula: m[2] || null, divisor: ... }
RateFormulaAt(text, d, p, f) ==
    IF p = 0 THEN NULL
    ELSE [ per     |-> trim(SubSeq(d, p, PerEnd(d, p) - 1)),
           formula |-> IF f = 0 THEN NULL
                       ELSE S(SubSeq(text, f, SkipDigits(d, f + 2) - 1)),
           divisor |-> IF f = 0 THEN NULL
                       ELSE N(100 * DigitsVal(SubSeq(d, f + 2, SkipDigits(d, f + 2) - 1))) ]

RateFormulaFrom(text, d, p) ==
    RateFormulaAt(text, d, p, IF p = 0 THEN 0 ELSE FormulaAt(d, PerEnd(d, p)))

RateFormulaOfLower(text, d) ==
    RateFormulaFrom(text, d,
        IF FirstMatch(d, LAMBDA i : RateWordAt(d, i) # 0) = 0 THEN 0
        ELSE RateWordAt(d, FirstMatch(d, LAMBDA i : RateWordAt(d, i) # 0)))

extractRateFormula(text) == RateFormulaOfLower(text, toLowerCase(text))

\* LABOUR_ROLES.find(r => lower.startsWith(r)) ?? null
RoleOfLower(lower) ==
    IF \E i \in 1..Len(LABOUR_ROLES) : startsWith(lower, LABOUR_ROLES[i])
    THEN S(LABOUR_ROLES[CHOOSE i \in 1..Len(LABOUR_ROLES) :
              /\ startsWith(lower, LABOUR_ROLES[i])
              /\ \A j \in 1..(i - 1) : ~startsWith(lower, LABOUR_ROLES[j])])
    ELSE NULL

getLabourRole(desc) == RoleOfLower(trim(toLowerCase(desc)))

\* str.replace(/\s{2,}/g, ' ')
RECURSIVE CollapseRuns(_)
CollapseRuns(str) ==
    IF str = "" THEN ""
    ELSE IF IsSpace(Head(str)) /\ IsSpace(Ch(str, 2))
      THEN " " \o CollapseRuns(TrimStart(str))
    ELSE Head(str) \o CollapseRuns(Tail(str))

makePrimary(row, rowIndex) ==
    [ index_code      |-> CellText(row[1]),
      serial_no       |-> row[2],
      description     |-> CollapseRuns(CellText(row[3])),
      row             |-> rowIndex,
      notes           |-> <<>>,
      sub_items       |-> <<>>,
      direct_labour   |-> <<>>,
      direct_material |-> <<>> ]

\* the chunk of a 'COMMON_DATA_HEADER' row (lines 226-231)
CommonData(rowIndex) ==
    [ index_code      |-> "__COMMON__",
      serial_no       |-> NULL,
      description     |-> "Common Data - Shared Base Analysis",
      row             |-> rowIndex,
      notes           |-> <<>>,
      sub_items       |-> <<>>,
      direct_labour   |-> <<>>,
      direct_material |-> <<>> ]

makeSubItem(row, rowIndex) ==
    [ sub_index    |-> CellText(row[2]),
      description  |-> CellText(row[3]),
      row          |-> rowIndex,
      diameter_mm  |-> extractDiameter(CellText(row[3])),
      weight_kg    |-> NULL,
      rate_formula |-> NULL,
      output_unit  |-> NULL,
      labour       |-> <<>>,
      material     |-> <<>>,
      testing      |-> <<>>,
      sundry       |-> <<>> ]

\* labour_role is set only when a role is found
makeInput(row, rowIndex) ==
    [ description     |-> CellText(row[3]),
      unit            |-> OrNull(CellText(row[4])),
      unit_normalized |-> normUnit(row[4]),
      quantity        |-> toFloat(row[5]),
      row             |-> rowIndex,
      labour_role     |-> IF getLabourRole(CellText(row[3])) = NULL THEN Undefined
                          ELSE getLabourRole(CellText(row[3])) ]

\* the locals of convertToJSON as one record
ConvLocals == [ chunks |-> chunks, primary |-> primary, subItem |-> subItem ]

SetConvLocals(st) ==
    /\ chunks' = st.chunks
    /\ primary' = st.primary
    /\ subItem' = st.subItem

\* a variant that leaves the sub-item open when there is no primary to push
\* it onto
closeSubKeepOpen(st) ==
    IF st.subItem # NULL /\ st.primary # NULL
    THEN [st EXCEPT !.primary.sub_items = Append(@, st.subItem), !.subItem = NULL]
    ELSE st

\* if (subItem && primary) primary.sub_items.push(subItem); subItem = null
closeSub(st) ==
    IF st.subItem # NULL /\ st.primary # NULL
    THEN [st EXCEPT !.primary.sub_items = Append(@, st.subItem), !.subItem = NULL]
    ELSE [st EXCEPT !.subItem = NULL]

\* a variant that pushes the chunk as soon as it is made
OpenPrimaryEager(st, chunk) ==
    [st EXCEPT !.chunks = Append(@, chunk), !.primary = chunk]

\* primary = chunk, once closePrimary has run
OpenPrimary(st, chunk) == [st EXCEPT !.primary = chunk]

\* closeSub(); if (primary) chunks.push(primary); primary = null
PushPrimary(st) ==
    IF st.primary # NULL
    THEN [st EXCEPT !.chunks = Append(@, st.primary), !.primary = NULL]
    ELSE st

closePrimary(st) == PushPrimary(closeSub(st))

\* a variant that sends every input of a primary item to direct_material
PushInputMaterialOnly(st, list, inp) ==
    IF st.subItem # NULL
      THEN [st EXCEPT !.subItem[list] = Append(@, inp)]
    ELSE IF st.primary # NULL
      THEN [st EXCEPT !.primary.direct_material = Append(@, inp)]
    ELSE st

\* target = subItem || primary; (target[list] ?? target.direct_...).push(inp)
PushInput(st, list, inp) ==
    IF st.subItem # NULL
      THEN [st EXCEPT !.subItem[list] = Append(@, inp)]
    ELSE IF st.primary # NULL
      THEN [st EXCEPT !.primary[IF list = "labour" THEN "direct_labour"
                                ELSE "direct_material"] = Append(@, inp)]
    ELSE st

\* low.includes('test') || low.includes('hydraulic') || low.includes('pressure test')
isTesting(low) ==
    includes(low, "test") \/ includes(low, "hydraulic") \/ includes(low, "pressure test")

\* case 'INPUT_ROW'
InputRow(st, inp) ==
    IF isTesting(toLowerCase(inp.description)) THEN PushInput(st, "testing", inp)
    ELSE IF inp.labour_role # Undefined THEN PushInput(st, "labour", inp)
    ELSE PushInput(st, "material", inp)

\* case 'INPUT_NO_QTY'
InputNoQty(st, row, rowIndex) ==
    PushInput(st, "material",
        [ description     |-> CellText(row[3]),
          unit            |-> OrNull(CellText(row[4])),
          unit_normalized |-> normUnit(row[4]),
          quantity        |-> NULL,
          row             |-> rowIndex ])

\* case 'SUNDRY'
Sundry(st, row, rowIndex) ==
    IF st.subItem # NULL
    THEN [st EXCEPT !.subItem.sundry =
             Append(@, [ description |-> CellText(row[3]),
                         factor      |-> toFloat(row[5]),
                         row         |-> rowIndex ])]
    ELSE st

\* a variant in which every weight row replaces the weight
WeightCalcLastWins(st, w) ==
    IF w # NULL /\ st.subItem # NULL
    THEN [st EXCEPT !.subItem.weight_kg = w]
    ELSE st

\* case 'WEIGHT_CALC': if (w && subItem && !subItem.weight_kg) subItem.weight_kg = w
WeightCalc(st, w) ==
    IF w # NULL /\ st.subItem # NULL /\ st.subItem.weight_kg = NULL
    THEN [st EXCEPT !.subItem.weight_kg = w]
    ELSE st

\* case 'RATE_FORMULA'
RateFormula(st, rf) ==
    IF rf # NULL /\ st.subItem # NULL
    THEN [st EXCEPT !.subItem.rate_formula = rf, !.subItem.output_unit = S(rf.per)]
    ELSE st

\* case 'NOTE'
Note(st, row, rowIndex) ==
    IF st.primary # NULL
    THEN [st EXCEPT !.primary.notes =
             Append(@, [ text |-> CellText(row[3]), row |-> rowIndex ])]
    ELSE st

\* the switch on the row type (lines 216-310)
Switch(st, type, row, rowIndex) ==
    CASE type = "PRIMARY_ITEM" ->
           OpenPrimary(closePrimary(st), makePrimary(row, rowIndex))
      [] type = "COMMON_DATA_HEADER" ->
           OpenPrimary(closePrimary(st), CommonData(rowIndex))
      [] type \in {"SUB_ITEM_ROMAN", "SUB_ITEM_ALPHA"} ->
           [closeSub(st) EXCEPT !.subItem = makeSubItem(row, rowIndex)]
      [] type = "INPUT_ROW" -> InputRow(st, makeInput(row, rowIndex))
      [] type = "INPUT_NO_QTY" -> InputNoQty(st, row, rowIndex)
      [] type = "SUNDRY" -> Sundry(st, row, rowIndex)
      [] type = "WEIGHT_CALC" -> WeightCalc(st, extractWeight(CellText(row[3])))
      [] type = "RATE_FORMULA" -> RateFormula(st, extractRateFormula(CellText(row[3])))
      [] type = "NOTE" -> Note(st, row, rowIndex)
      [] OTHER -> st

\* one call of the forEach callback
ForEachRow(st, row, rowIndex) == Switch(st, classifyRow(row, rowIndex), row, rowIndex)

RECURSIVE CountSubItems(_)
CountSubItems(cs) ==
    IF cs = <<>> THEN 0
    ELSE (IF Head(cs).index_code # "__COMMON__" THEN Len(Head(cs).sub_items) ELSE 0)
           + CountSubItems(Tail(cs))

\* the object returned (source, sheet and parsed_at name the file and the time)
Output(cs) ==
    [ total_items     |-> Len(SelectSeq(cs, LAMBDA c : c.index_code # "__COMMON__")),
      total_sub_items |-> CountSubItems(cs),
      items           |-> cs ]

\* Longest sheet explored by convertToJSON, its four file-header rows included.
MaxSheetRows == 7

\* rows 1 to 4 of a sheet: four title lines, or four lines that would each
\* open a primary item, a sub-item and an input further down
FileHeaderRows == <<
    <<S("DATA SHEET"), NULL, NULL, NULL, NULL>>,
    <<S("PHE-PL-9"), S("i"), S("Plumber 1st class"), S("day"), N(100)>> >>

\* the rows below them
SheetRows == <<
    <<S("PHE-PL-1"), N(100), S("Laying  G.I. pipes"), NULL, NULL>>,
    <<S("Common Data"), NULL, NULL, NULL, NULL>>,
    <<NULL, S("i"), S("15 mm dia G.I. pipe"), NULL, NULL>>,
    <<NULL, S("A"), S("Jointing"), NULL, NULL>>,
    <<NULL, NULL, S("Plumber 1st class"), S("Day"), N(50)>>,
    <<NULL, NULL, S("G.I. pipe"), S("Rmt."), S("1.05")>>,
    <<NULL, NULL, S("Mazdoor for hydraulic testing"), S("day"), N(25)>> >>

ConvertInit ==
    /\ prog = "convertToJSON"
    /\ rows = <<>>
    /\ sections = <<>>
    /\ currentSection = 0
    /\ currentSubSection = NoSubSection
    /\ sectionIdCounter = 0
    /\ itemIdCounter = 0
    /\ ssr_metadata = <<>>
    /\ ssr_sections = <<>>
    /\ proc = [ pc |-> "parseExcel", err |-> "none", connected |-> FALSE,
                closes |-> 0, indexes |-> 0, exit |-> <<>> ]
    /\ chunks = <<>>
    /\ primary = NULL
    /\ subItem = NULL
    /\ output = NULL
    /\ sheetItems = <<>>
    /\ current = NULL
    /\ finalData = <<>>
    /\ LabourRate = <<>>

\* rows.forEach((row, i) => ...) on the next row, rowIndex = i + 1, of a sheet
\* of at most max rows
ForEachUpTo(row, max) ==
    /\ prog = "convertToJSON"
    /\ output = NULL
    /\ Len(rows) < max
    /\ rows' = Append(rows, row)
    /\ SetConvLocals(ForEachRow(ConvLocals, row, Len(rows) + 1))
    /\ UNCHANGED <<prog, sections, currentSection, currentSubSection,
                   sectionIdCounter, itemIdCounter, ssr_metadata, ssr_sections,
                   proc, output, sheetParser, seeder>>

ConvertRow(row) == ForEachUpTo(row, MaxSheetRows)

\* the end of the sheet: closePrimary() and the return statement
ConvertReturn ==
    /\ prog = "convertToJSON"
    /\ output = NULL
    /\ SetConvLocals(closePrimary(ConvLocals))
    /\ output' = Output(closePrimary(ConvLocals).chunks)
    /\ UNCHANGED <<prog, rows, sections, currentSection, currentSubSection,
                   sectionIdCounter, itemIdCounter, ssr_metadata, ssr_sections, proc,
                   sheetParser, seeder>>

ConvertNext ==
    \/ \E i \in 1..Len(FileHeaderRows) :
          /\ Len(rows) < 4
          /\ IF rows = <<>> THEN TRUE ELSE rows[1] = FileHeaderRows[i]
          /\ ConvertRow(FileHeaderRows[i])
    \/ \E i \in 1..Len(SheetRows) :
          Len(rows) >= 4 /\ ConvertRow(SheetRows[i])
    \/ ConvertReturn

ConvertSpec == ConvertInit /\ [][ConvertNext]_vars

\* Sheets of weight, rate-formula and sundry rows under four title lines: a
\* primary item, a sub-item, three weight rows (the first states no weight),
\* three rate-formula rows (the last names no unit) and a sundry row.
WeightRows == <<
    <<S("PHE-PL-1"), N(100), S("Laying G.I. pipes"), NULL, NULL>>,
    <<NULL, S("i"), S("15 mm dia G.I. pipe"), NULL, NULL>>,
    <<NULL, NULL, S("Weight of pipe"), NULL, NULL>>,
    <<NULL, NULL, S("Weight of 5m length = 85.5 kgs"), NULL, NULL>>,
    <<NULL, NULL, S("Weight of 6m length = 90 kg"), NULL, NULL>>,
    <<NULL, NULL, S("Rate per metre = c/5"), NULL, NULL>>,
    <<NULL, NULL, S("Rate per Rmt"), NULL, NULL>>,
    <<NULL, NULL, S("Rate per: metre"), NULL, NULL>>,
    <<NULL, NULL, S("Add sundries @ 1%"), NULL, N(1)>> >>

\* Longest sheet of them explored, its four file-header rows included.
MaxWeightRows == 8

WeightNext ==
    \/ Len(rows) < 4 /\ ForEachUpTo(FileHeaderRows[1], MaxWeightRows)
    \/ \E i \in 1..Len(WeightRows) :
          Len(rows) >= 4 /\ ForEachUpTo(WeightRows[i], MaxWeightRows)
    \/ ConvertReturn

WeightSpec == ConvertInit /\ [][WeightNext]_vars

-----------------------------------------------------------------------------
(* parseSheet (src/unnamed/part_002, the pipe-rate schedule converter).    *)
(* A row is <<col A, col B, col C, col D>>; `sheetItems` and `current` are *)
(* the locals `items` and `current`, and `output` is the object main       *)
(* writes once parseSheet has returned.                                    *)

\* a number cell kept in thousandths, so that toFixed(2) has a digit to round
N3(x1000) == [t |-> "num", x1000 |-> x1000]

\* row[k] ?? null
Col(row, k) == IF row[k] = Undefined THEN NULL ELSE row[k]

\* String(raw).replace(/\s+/g, "").replace(/\./g, "").toLowerCase()
normaliseItemNo(raw) == toLowerCase(StripSpacesAndDots(String(raw)))

\* /^\d+$/
AllDigitsRe(str) == IsDigit(Ch(str, 1)) /\ SkipDigits(str, 1) = Len(str) + 1

\* /^\d+\.\s*[a-z]\.$/ on the lower-cased text; k is the index of the letter
LetterAndDotEnd(str, k) ==
    IsLower(Ch(str, k)) /\ Ch(str, k + 1) = "." /\ k + 1 = Len(str)

NumberDotLetterRe(str) ==
    /\ IsDigit(Ch(str, 1))
    /\ Ch(str, SkipDigits(str, 1)) = "."
    /\ LetterAndDotEnd(str, SkipSpaces(str, SkipDigits(str, 1) + 1))

isItemNo(value) ==
    IF value = NULL \/ value = Undefined THEN FALSE
    ELSE \/ AllDigitsRe(trim(String(value)))
         \/ NumberDotLetterRe(toLowerCase(trim(String(value))))

isDiameterHeader(value) ==
    IF ~IsStr(value) THEN FALSE
    ELSE startsWith(toUpperCase(trim(value.s)), "DIAMETER OF PIPE")

isDataRow(col1, col2, col3, col4) ==
    /\ col1 = NULL \/ col1 = Undefined
    /\ IsNum(col2)
    /\ IsStr(col3)
    /\ IsNum(col4)

\* isSectionHeader of part_002 (lines 86-94)
PSisSectionHeader(col1, col2, col3, col4) ==
    /\ isItemNo(col1)
    /\ col2 # NULL
    /\ col2 # Undefined
    /\ col3 = NULL \/ col3 = Undefined
    /\ col4 = NULL \/ col4 = Undefined

\* the thousandths x rounded to hundredths.  A tie (x.xx5) is decided by the
\* binary value of the double; no cell of the model holds one.
RoundToHundredths(x1000) ==
    CASE x1000 % 10 < 5 -> x1000 \div 10
      [] x1000 % 10 > 5 -> x1000 \div 10 + 1

TwoDigits(n) == NatToStr(n \div 10) \o NatToStr(n % 10)

\* v.toFixed(2): the decimal text with exactly two fraction digits
toFixed2(v) ==
    NatToStr(RoundToHundredths(v.x1000) \div 100) \o "."
        \o TwoDigits(RoundToHundredths(v.x1000) % 100)

SheetLocals == [ items |-> sheetItems, current |-> current ]

SetSheetLocals(st) ==
    /\ sheetItems' = st.items
    /\ current' = st.current

\* if (current) items.push(current)
FlushCurrent(st) ==
    IF st.current # NULL THEN [st EXCEPT !.items = Append(@, st.current)] ELSE st

\* Case 1: the new section
OpenItem(st, col1, col2) ==
    [st EXCEPT !.current = [ itemNo |-> normaliseItemNo(col1),
                             title  |-> trim(String(col2)),
                             unit   |-> NULL,
                             rates  |-> <<>> ]]

\* a variant in which every data row sets the unit
PushRateUnitOfLast(st, col2, col3, col4) ==
    [st EXCEPT !.current.unit = S(trim(col3.s)),
               !.current.rates = Append(@, [ diameter |-> col2,
                                             rate |-> parseFloat(toFixed2(col4)) ])]

\* Case 3: the data row
PushRate(st, col2, col3, col4) ==
    [st EXCEPT !.current.unit = IF @ = NULL THEN S(trim(col3.s)) ELSE @,
               !.current.rates = Append(@, [ diameter |-> col2,
                                             rate |-> parseFloat(toFixed2(col4)) ])]

\* the body of the for loop on one row (lines 107-143)
SheetCase(st, col1, col2, col3, col4) ==
    IF PSisSectionHeader(col1, col2, col3, col4)
      THEN OpenItem(FlushCurrent(st), col1, col2)
    ELSE IF isDiameterHeader(col2) THEN st
    ELSE IF isDataRow(col1, col2, col3, col4) /\ st.current # NULL
      THEN PushRate(st, col2, col3, col4)
    ELSE st

SheetStep(st, row) ==
    SheetCase(st, Col(row, 1), Col(row, 2), Col(row, 3), Col(row, 4))

\* Longest pipe-rate sheet explored.
MaxPipeRows == 5

\* two section headers (one with a numeric item number), a DIAMETER line, two
\* data rows (one with no cell in column A), and a row that has an item
\* number and a unit and a rate, so is neither a header nor a data row
PipeRows == <<
    <<S("8. a."), S("Providing G.I. pipes "), NULL, NULL>>,
    <<N(1000), S("Laying C.I. pipes"), NULL, NULL>>,
    <<NULL, S("Diameter of pipe in mm"), NULL, NULL>>,
    <<Undefined, N(1500), S(" Rmt "), N3(12346)>>,
    <<NULL, N(2000), S("Each"), N3(20000)>>,
    <<S("9. a."), N(2500), S("Rmt"), N3(30000)>> >>

PipeInit ==
    /\ prog = "parseSheet"
    /\ rows = <<>>
    /\ sections = <<>>
    /\ currentSection = 0
    /\ currentSubSection = NoSubSection
    /\ sectionIdCounter = 0
    /\ itemIdCounter = 0
    /\ ssr_metadata = <<>>
    /\ ssr_sections = <<>>
    /\ proc = [ pc |-> "parseExcel", err |-> "none", connected |-> FALSE,
                closes |-> 0, indexes |-> 0, exit |-> <<>> ]
    /\ chunks = <<>>
    /\ primary = NULL
    /\ subItem = NULL
    /\ output = NULL
    /\ sheetItems = <<>>
    /\ current = NULL
    /\ finalData = <<>>
    /\ LabourRate = <<>>

\* one iteration of the for loop of parseSheet
ParseSheetRow(row) ==
    /\ prog = "parseSheet"
    /\ output = NULL
    /\ Len(rows) < MaxPipeRows
    /\ rows' = Append(rows, row)
    /\ SetSheetLocals(SheetStep(SheetLocals, row))
    /\ UNCHANGED <<prog, sections, currentSection, currentSubSection,
                   sectionIdCounter, itemIdCounter, ssr_metadata, ssr_sections,
                   proc, converter, seeder>>

\* the end of the sheet: the last section is flushed, parseSheet returns and
\* main builds its output (lines 146-148, 211, 220-226)
ParseSheetReturn ==
    /\ prog = "parseSheet"
    /\ output = NULL
    /\ SetSheetLocals(FlushCurrent(SheetLocals))
    /\ output' = [ department |-> "Public Health",
                   totalItems |-> Len(FlushCurrent(SheetLocals).items),
                   items      |-> FlushCurrent(SheetLocals).items ]
    /\ UNCHANGED <<prog, rows, sections, currentSection, currentSubSection,
                   sectionIdCounter, itemIdCounter, ssr_metadata, ssr_sections,
                   proc, chunks, primary, subItem, seeder>>

PipeNext ==
    \/ \E i \in 1..Len(PipeRows) : ParseSheetRow(PipeRows[i])
    \/ ParseSheetReturn

PipeSpec == PipeInit /\ [][PipeNext]_vars

-----------------------------------------------------------------------------
(* importExcel (src/seed.js, the labour-rate seeder).  A row is columns A  *)
(* to E, of which C, D and E (description, unit, rate) are read; a cell    *)
(* the sheet does not have is Undefined.  `currentSection` and             *)
(* `currentSubSection` are its locals of that name (null or a string),     *)
(* `finalData` the records collected, `LabourRate` the collection, and     *)
(* `proc` where the function stands (pc), the await that rejected (err)    *)
(* and the exit status.                                                    *)

\* v ? String(v).trim() : ""
TextOrEmpty(v) ==
    IF v = Undefined THEN ""
    ELSE IF Truthy(v) THEN trim(String(v))
    ELSE ""

\* the record pushed (lines 133-140)
LabourRecord(category, subCategory, description, unit, rate) ==
    [ year        |-> "2005-06",
      category    |-> category,
      subCategory |-> subCategory,
      description |-> description,
      unit        |-> unit,
      rate        |-> rate ]

SeedLocals ==
    [ currentSection |-> currentSection, currentSubSection |-> currentSubSection,
      finalData |-> finalData ]

SetSeedLocals(st) ==
    /\ currentSection' = st.currentSection
    /\ currentSubSection' = st.currentSubSection
    /\ finalData' = st.finalData

\* currentSection = name; currentSubSection = null
SetCategory(st, name) ==
    [st EXCEPT !.currentSection = S(name), !.currentSubSection = NULL]

SetSubCategory(st, name) == [st EXCEPT !.currentSubSection = S(name)]

\* the tests on the section, the rate and the push (lines 128-140)
PushRecord(st, description, unit, rate) ==
    IF st.currentSection = NULL THEN st
    ELSE IF rate = Undefined \/ rate = NULL THEN st
    ELSE IF ~IsNum(rate) THEN st
    ELSE [st EXCEPT !.finalData =
             Append(@, LabourRecord(st.currentSection, st.currentSubSection,
                                    description, unit, rate))]

\* the headings, in the order they are tested (lines 87-125)
SeedCase(st, lowerDesc, description, unit, rate) ==
    IF includes(lowerDesc, "skilled workmen") THEN SetCategory(st, "Skilled")
    ELSE IF includes(lowerDesc, "semi-skilled") THEN SetCategory(st, "Semi-Skilled")
    ELSE IF includes(lowerDesc, "unskilled") THEN SetCategory(st, "Unskilled")
    ELSE IF includes(lowerDesc, "other conveyance") THEN SetCategory(st, "Conveyance")
    ELSE IF includes(lowerDesc, "first class") THEN SetSubCategory(st, "First Class")
    ELSE IF includes(lowerDesc, "second class") THEN SetSubCategory(st, "Second Class")
    ELSE IF includes(lowerDesc, "operator") THEN SetSubCategory(st, "Operator")
    ELSE PushRecord(st, description, unit, rate)

\* the body of the for loop on one row (lines 78-140)
SeedStep(st, row) ==
    IF TextOrEmpty(row[3]) = "" THEN st
    ELSE SeedCase(st, toLowerCase(TextOrEmpty(row[3])), TextOrEmpty(row[3]),
                  TextOrEmpty(row[4]), row[5])

\* the enum of category (src/models/labourRates.js line 10)
CategoryEnum == {"Skilled", "Semi-Skilled", "Unskilled", "Conveyance"}

\* required: true of a String path: a string that is not empty
RequiredString(v) == IsStr(v) /\ v.s # ""

\* the validation of one document against labourRateSchema: year,
\* description and unit are held as plain texts, category and subCategory
\* as values that may be null
ValidLabourRate(doc) ==
    /\ doc.year # ""
    /\ RequiredString(doc.category)
    /\ doc.category.s \in CategoryEnum
    /\ doc.subCategory = NULL \/ IsStr(doc.subCategory)
    /\ doc.description # ""
    /\ doc.unit # ""
    /\ IsNum(doc.rate)

\* Longest labour-rate sheet explored.
MaxSeedRows == 3

\* the four category headings of the sheet, a heading that names a category
\* without the word "workmen", a sub-category heading, a rate row, a rate
\* row with no unit cell, and a row whose rate is a text
SeedRows == <<
    <<N(100), NULL, S("Skilled Workmen"), Undefined, Undefined>>,
    <<N(200), NULL, S("Semi-Skilled Workmen"), Undefined, Undefined>>,
    <<N(300), NULL, S("Unskilled Workmen"), Undefined, Undefined>>,
    <<N(400), NULL, S("Other Conveyance"), Undefined, Undefined>>,
    <<NULL, NULL, S("UNSKILLED labour"), Undefined, Undefined>>,
    <<NULL, NULL, S("First Class"), Undefined, Undefined>>,
    <<NULL, N(100), S(" Mason "), S("Day"), N(25000)>>,
    <<NULL, N(200), S("Helper"), Undefined, N(15000)>>,
    <<NULL, N(300), S("Carpenter"), S("Day"), S("250")>> >>

\* what the collection holds before the run
OldLabourRates == <<LabourRecord(S("Skilled"), NULL, "Fitter", "Day", N(20000))>>

SeedInit ==
    /\ prog = "importExcel"
    /\ rows = <<>>
    /\ sections = <<>>
    /\ currentSection = NULL
    /\ currentSubSection = NULL
    /\ sectionIdCounter = 0
    /\ itemIdCounter = 0
    /\ ssr_metadata = <<>>
    /\ ssr_sections = <<>>
    /\ proc = [ pc |-> "rows", err |-> "none", connected |-> FALSE,
                closes |-> 0, indexes |-> 0, exit |-> <<>> ]
    /\ chunks = <<>>
    /\ primary = NULL
    /\ subItem = NULL
    /\ output = NULL
    /\ sheetItems = <<>>
    /\ current = NULL
    /\ finalData = <<>>
    /\ LabourRate = OldLabourRates

\* one iteration of the for loop of importExcel
ImportExcelRow(row) ==
    /\ prog = "importExcel"
    /\ proc.pc = "rows"
    /\ Len(rows) < MaxSeedRows
    /\ rows' = Append(rows, row)
    /\ SetSeedLocals(SeedStep(SeedLocals, row))
    /\ UNCHANGED <<prog, sections, sectionIdCounter, itemIdCounter,
                   ssr_metadata, ssr_sections, proc, converter, sheetParser,
                   LabourRate>>

\* catch (error) { ...; process.exit(1) }
ImportFailed(step) == [proc EXCEPT !.pc = "exited", !.err = step, !.exit = <<1>>]

\* await LabourRate.deleteMany({}), at the end of the sheet; the await may
\* reject
LabourRate_deleteMany ==
    /\ prog = "importExcel"
    /\ proc.pc = "rows"
    /\ \/ /\ LabourRate' = <<>>
          /\ proc' = [proc EXCEPT !.pc = "insertMany"]
       \/ /\ proc' = ImportFailed("deleteMany")
          /\ UNCHANGED LabourRate
    /\ UNCHANGED <<prog, rows, sections, currentSection, currentSubSection,
                   sectionIdCounter, itemIdCounter, ssr_metadata, ssr_sections,
                   converter, sheetParser, finalData>>

\* await LabourRate.insertMany(finalData) and process.exit(): the documents
\* are validated first and none is stored when one is invalid
LabourRate_insertMany ==
    /\ prog = "importExcel"
    /\ proc.pc = "insertMany"
    /\ IF \A k \in 1..Len(finalData) : ValidLabourRate(finalData[k])
       THEN \/ /\ LabourRate' = LabourRate \o finalData
               /\ proc' = [proc EXCEPT !.pc = "exited", !.exit = <<0>>]
            \/ /\ proc' = ImportFailed("insertMany")
               /\ UNCHANGED LabourRate
       ELSE /\ proc' = ImportFailed("validation")
            /\ UNCHANGED LabourRate
    /\ UNCHANGED <<prog, rows, sections, currentSection, currentSubSection,
                   sectionIdCounter, itemIdCounter, ssr_metadata, ssr_sections,
                   converter, sheetParser, finalData>>

SeedNext ==
    \/ \E i \in 1..Len(SeedRows) : ImportExcelRow(SeedRows[i])
    \/ LabourRate_deleteMany
    \/ LabourRate_insertMany

SeedSpec == SeedInit /\ [][SeedNext]_vars

-----------------------------------------------------------------------------
(* Vocabulary of the properties *)

IsParseExcel == prog = "parseExcel"
IsPublicHealth == prog = "parsePublicHealthXLSX"

\* the rows below the two title rows, read so far
BodyRows == SubSeq(rows, 3, Len(rows))

\* the row read last
LastRow == rows[Len(rows)]

\* a step that reads one row below the title rows, and that row
ReadsBodyRow == Len(rows) >= 2 /\ Len(rows') = Len(rows) + 1
RowRead == rows'[Len(rows')]

LocalsAfter ==
    [ sections |-> sections', cur |-> currentSection', sub |-> currentSubSection',
      sid |-> sectionIdCounter', iid |-> itemIdCounter' ]

\* the canonical form of an item number: whitespace and '.' removed, lower-cased
CanonicalKey(itemNo) == toLowerCase(StripSpacesAndDots(String(itemNo)))

\* parseExcel takes the row as a section header or a compound item
OpensSection(row) == Role(0, Normalize(row)) \in {"compound", "section"}

Openers(rws) == SelectSeq(rws, OpensSection)

\* the step changes the target list to `items` and nothing else
OnlyTargetBecomes(items) ==
    /\ currentSection' = currentSection
    /\ currentSubSection' = currentSubSection
    /\ Len(sections') = Len(sections)
    /\ \A k \in 1..Len(sections) : k # currentSection => sections'[k] = sections[k]
    /\ IF currentSubSection # NoSubSection
       THEN /\ sections'[currentSection] =
                 [sections[currentSection] EXCEPT
                    !.sub_sections[currentSubSection[2]].items = items]
            /\ currentSubSection[1] = currentSection
       ELSE sections'[currentSection] = [sections[currentSection] EXCEPT !.items = items]

\* the RateItem parseExcel builds from a description, a unit and a rate
ExpectedItem(desc, unit, rate) ==
    [ dimension |-> IF desc = NULL THEN NULL ELSE S(trim(StripMm(desc.s))),
      unit      |-> unit,
      rate      |-> rate,
      rate_type |-> IF IsNum(rate) THEN S("numeric") ELSE S("formula") ]

-----------------------------------------------------------------------------
(* C1: in parseExcel every row taken as a section header or compound item  *)
(* appends one Section when it is read: the output holds as many Sections  *)
(* as there were such rows, in row order, and the Section opened last is   *)
(* in the output at whatever row the input ends (no flush is needed).      *)
C1_SectionsOf(openers) ==
    /\ Len(sections) = Len(openers)
    /\ \A k \in 1..Len(sections) :
          /\ sections[k].item_key = snoKey(TrimSno(openers[k][1]))
          /\ sections[k].title = clean(openers[k][2])

C1_EagerAppend ==
    IsParseExcel =>
        /\ C1_SectionsOf(Openers(BodyRows))
        /\ currentSection = Len(sections)

C1_Witness ==
    /\ IsParseExcel
    /\ Len(sections) = 2
    /\ OpensSection(LastRow)
    /\ Len(BodyRows) = 3
    /\ sections[1].item_key # sections[2].item_key

(* C2: in parseExcel no row changes a Section that is followed by a later  *)
(* Section in the output.                                                  *)
C2_ClosedSectionsFrozen ==
    [][IsParseExcel =>
         \A k \in 1..(Len(sections) - 1) :
            Len(sections') >= k /\ sections'[k] = sections[k]]_vars

C2_Witness ==
    /\ IsParseExcel
    /\ Len(sections) = 2
    /\ Len(sections[2].items) = 1
    /\ Role(2, Normalize(LastRow)) \in {"rateItem", "rateOnly"}

(* C3: in parseExcel a row read while a Section is open, with a unit and a *)
(* rate, that is no compound item, section header, sub-section header or   *)
(* auto sub-section header, appends one RateItem (description without a    *)
(* trailing "mm", the unit, the rate) to the open SubSection's items, or   *)
(* to the Section's own items when no SubSection is open, and changes      *)
(* nothing else; the rows [,1,"RATES OF LABOUR",,] and [,,"80","rm",120]   *)
(* give the Section and RateItem of the specification's example.           *)
C3_IsFullRateRow(r) ==
    /\ currentSection # 0
    /\ Truthy(r.unit) /\ r.rate # NULL
    /\ ~(Truthy(r.sno) /\ isSimpleCompound(r.sno))
    /\ ~isSectionHeader(r.sno, r.unit, r.rate)
    /\ ~isSubSection(r.sno, r.unit, r.rate)
    /\ ~(~Truthy(r.sno) /\ Truthy(r.desc) /\ ~isSkip(r.desc)
           /\ AutoSubSectionRe(r.desc.s))

C3_ExampleRows ==
    << <<N(100), S("RATES OF LABOUR"), NULL, NULL>>,
       <<NULL, S("80"), S("rm"), N(12000)>> >>

C3_ExampleSections ==
    << [ item_no |-> N(100), item_key |-> S("1"), category |-> S("Labour Rates"),
         title |-> S("RATES OF LABOUR"), unit |-> NULL, rate |-> NULL,
         rate_type |-> NULL, sub_sections |-> <<>>,
         items |-> << [ dimension |-> S("80"), unit |-> S("rm"),
                        rate |-> N(12000), rate_type |-> S("numeric") ] >> ] >>

C3_Step(r) ==
    C3_IsFullRateRow(r) =>
        OnlyTargetBecomes(Append(Target(Locals), ExpectedItem(r.desc, r.unit, r.rate)))

C3_FullRateItem ==
    [][(IsParseExcel /\ ReadsBodyRow) =>
         /\ C3_Step(Normalize(RowRead))
         /\ (SubSeq(rows', 3, Len(rows')) = C3_ExampleRows
               => sections' = C3_ExampleSections)]_vars

C3_Witness ==
    /\ IsParseExcel
    /\ currentSubSection # NoSubSection
    /\ Role(currentSection, Normalize(LastRow)) = "rateItem"
    /\ Len(Target(Locals)) = 1
    /\ Target(Locals)[1].dimension = S("100")
    /\ Target(Locals)[1].rate_type = S("formula")

(* C4: rate-only-row repair in parseExcel.  A RateItem can lack a rate     *)
(* only if the row that gave its dimension and unit carried none, so the   *)
(* repair reads: when a row with a description and a unit but no rate is   *)
(* read in an open Section and the next row carries only a numeric rate,   *)
(* the target list ends with one item holding that description's           *)
(* dimension, that unit, the rate and rateType "numeric".                  *)
C4_UnitWithoutRate(r) ==
    /\ ~Truthy(r.sno) /\ Truthy(r.desc) /\ Truthy(r.unit) /\ r.rate = NULL
    /\ ~AutoSubSectionRe(r.desc.s)

C4_OnlyNumericRate(r) ==
    ~Truthy(r.sno) /\ r.desc = NULL /\ r.unit = NULL /\ r.rate # NULL /\ IsNum(r.rate)

C4_Repaired(first, second) ==
    /\ Target(Locals) # <<>>
    /\ Target(Locals)[Len(Target(Locals))] =
          ExpectedItem(first.desc, first.unit, second.rate)

C5_IsRateOnlyRow(r) ==
    currentSection # 0 /\ r.rate # NULL /\ ~Truthy(r.unit) /\ ~Truthy(r.sno)

C5_IsAutoSubSectionHeader(r) ==
    ~Truthy(r.sno) /\ Truthy(r.desc) /\ ~isSkip(r.desc) /\ AutoSubSectionRe(r.desc.s)

C5_NewTarget(old, r) ==
    IF old = <<>> THEN Append(old, ExpectedItem(r.desc, NULL, r.rate))
    ELSE IF old[Len(old)].rate = NULL THEN [old EXCEPT ![Len(old)].rate = r.rate]
    ELSE Append(old, ExpectedItem(r.desc, NULL, r.rate))

\* as claimed: for every such row
C5_RateOnlyRowAsClaimed ==
    [][(IsParseExcel /\ ReadsBodyRow /\ C5_IsRateOnlyRow(Normalize(RowRead)))
         => OnlyTargetBecomes(C5_NewTarget(Target(Locals), Normalize(RowRead)))]_vars

\* as amended: for every such row that is not an auto sub-section header
C5_RateOnlyRow ==
    [][(/\ IsParseExcel /\ ReadsBodyRow
        /\ C5_IsRateOnlyRow(Normalize(RowRead))
        /\ ~C5_IsAutoSubSectionHeader(Normalize(RowRead)))
         => OnlyTargetBecomes(C5_NewTarget(Target(Locals), Normalize(RowRead)))]_vars

C5_Witness ==
    /\ IsParseExcel
    /\ currentSubSection # NoSubSection
    /\ C5_IsRateOnlyRow(Normalize(LastRow))
    /\ ~C5_IsAutoSubSectionHeader(Normalize(LastRow))
    /\ Len(Target(Locals)) = 1
    /\ Target(Locals)[1].unit = NULL
    /\ Target(Locals)[1].dimension = S("Scaffolding 80")
    /\ sections[currentSection].items = <<>>

(* C6: in parsePublicHealthXLSX a row with a rate and no unit, read while a *)
(* SubSection is open (and that opens no Section itself), adds its         *)
(* RateItem to, or back-fills the last item of, that SubSection's items    *)
(* and leaves the parent Section's own items alone.                        *)
C6_IsRateWithoutUnit(r) ==
    /\ currentSection # 0
    /\ currentSubSection # NoSubSection
    /\ r.rate # NULL /\ ~Truthy(r.unit)
    /\ ~PHisFlatItem(r.sno)

C6_RateWithoutUnitInSubSection ==
    [][(IsPublicHealth /\ ReadsBodyRow /\ C6_IsRateWithoutUnit(PHNormalize(RowRead)))
         => /\ sections'[currentSection].items = sections[currentSection].items
            /\ sections'[currentSection].sub_sections[currentSubSection[2]].items
                 # sections[currentSection].sub_sections[currentSubSection[2]].items
       ]_vars

(* C7: in parseExcel every row below the title rows whose canonical key is *)
(* in the compound allow-list opens a new top-level Section with that      *)
(* itemKey, whether or not a Section is open and whether or not the row    *)
(* carries a unit or a rate; it adds no SubSection and no RateItem;        *)
(* itemNo "11.a." gives itemKey "11a".                                     *)
C7_AllowList == {"8a", "8b", "9a", "9b", "11a", "11b", "18a", "18b", "41a", "41b"}

C7_IsCompound(row) == row[1] # NULL /\ CanonicalKey(row[1]) \in C7_AllowList

C7_CompoundOpensSection ==
    [][(IsParseExcel /\ ReadsBodyRow /\ C7_IsCompound(RowRead)) =>
         /\ Len(sections') = Len(sections) + 1
         /\ \A k \in 1..Len(sections) : sections'[k] = sections[k]
         /\ sections'[Len(sections')].item_key = S(CanonicalKey(RowRead[1]))
         /\ sections'[Len(sections')].sub_sections = <<>>
         /\ sections'[Len(sections')].items = <<>>
         /\ currentSection' = Len(sections')
         /\ currentSubSection' = NoSubSection
         /\ (RowRead[1] = S("11.a.") => sections'[Len(sections')].item_key = S("11a"))
       ]_vars

C7_Witness ==
    /\ IsParseExcel
    /\ Len(sections) = 2
    /\ Len(sections[1].sub_sections) = 1
    /\ C7_IsCompound(LastRow)
    /\ LastRow[3] # NULL /\ LastRow[4] # NULL
    /\ sections[2].item_key = S("18b")
    /\ currentSubSection = NoSubSection

(* C8: formula preservation in parseExcel.  A row below the title rows     *)
(* whose rate cell is the text "As per Common SSR" yields a Section or a   *)
(* RateItem whose rate is that text and whose rateType is "formula".       *)
C8_Text == "As per Common SSR"

C8_HasFormulaRate(row) == row[4] = S(C8_Text)

C8_YieldsSection ==
    /\ Len(sections') = Len(sections) + 1
    /\ sections'[Len(sections')].rate = S(C8_Text)
    /\ sections'[Len(sections')].rate_type = S("formula")

C8_YieldsRateItem ==
    /\ currentSection # 0
    /\ currentSection' = currentSection
    /\ currentSubSection' = currentSubSection
    /\ Len(Target(LocalsAfter)) = Len(Target(Locals)) + 1
    /\ Target(LocalsAfter)[Len(Target(LocalsAfter))].rate = S(C8_Text)
    /\ Target(LocalsAfter)[Len(Target(LocalsAfter))].rate_type = S("formula")

\* as claimed: every such row, never dropped
C8_FormulaKeptAsClaimed ==
    [][(IsParseExcel /\ ReadsBodyRow /\ C8_HasFormulaRate(RowRead))
         => (C8_YieldsSection \/ C8_YieldsRateItem)]_vars

\* the rows parseExcel keeps: a compound item; or, in an open Section, a row
\* that is no auto sub-section header and has a unit or no item number
C8_IsKept(r) ==
    \/ (Truthy(r.sno) /\ isSimpleCompound(r.sno))
    \/ /\ currentSection # 0
       /\ ~C5_IsAutoSubSectionHeader(r)
       /\ (Truthy(r.unit) \/ ~Truthy(r.sno))

\* as amended: every such row that parseExcel keeps
C8_FormulaKept ==
    [][(/\ IsParseExcel /\ ReadsBodyRow
        /\ C8_HasFormulaRate(RowRead)
        /\ C8_IsKept(Normalize(RowRead)))
         => (C8_YieldsSection \/ C8_YieldsRateItem)]_vars

C8_Witness ==
    /\ IsParseExcel
    /\ Len(sections) = 1
    /\ sections[1].rate = S(C8_Text)
    /\ sections[1].rate_type = S("formula")
    /\ Len(sections[1].items) = 1
    /\ sections[1].items[1].rate = S(C8_Text)
    /\ sections[1].items[1].rate_type = S("formula")
    /\ C8_HasFormulaRate(LastRow)

(* C9: every Section parseExcel produces has itemKey equal to the canonical *)
(* form of its itemNo (whitespace and '.' removed, lower-cased).            *)
C9_ItemKeyCanonical ==
    IsParseExcel =>
        \A k \in 1..Len(sections) :
            sections[k].item_key = S(CanonicalKey(sections[k].item_no))

C9_Witness ==
    /\ IsParseExcel
    /\ \E k \in 1..Len(sections) :
          sections[k].item_no = S("18 B.") /\ sections[k].item_key = S("18b")
    /\ \E k \in 1..Len(sections) :
          sections[k].item_no = N(100) /\ sections[k].item_key = S("1")

(* C10: every Section of parseExcel and of parsePublicHealthXLSX has a     *)
(* category: the static table's entry for its canonical key, failing that  *)
(* for its item number cast to a string, and "General" when neither is in  *)
(* the table.                                                              *)
C10_Table == IF IsParseExcel THEN CATEGORY_MAP ELSE SECTION_CATEGORIES

C10_Has(table, k) == \E i \in 1..Len(table) : table[i][1] = k

C10_Entry(table, k) == S(table[CHOOSE i \in 1..Len(table) : table[i][1] = k][2])

C10_Resolve(table, canonical, raw) ==
    IF C10_Has(table, canonical) THEN C10_Entry(table, canonical)
    ELSE IF C10_Has(table, raw) THEN C10_Entry(table, raw)
    ELSE S("General")

C10_Expected(table, itemNo) ==
    C10_Resolve(table, CanonicalKey(itemNo), String(itemNo))

C10_CategoryNeverAbsent ==
    \A k \in 1..Len(sections) :
        /\ sections[k].category.t = "str"
        /\ sections[k].category = C10_Expected(C10_Table, sections[k].item_no)

C10_Witness ==
    /\ IsPublicHealth
    /\ Len(sections) = 3
    /\ sections[1].category = S("General")
    /\ sections[2].category = S("RCC Pipe Laying")
    /\ sections[3].category = S("Air Valve Labour")
    /\ sections[3].item_no = S("18 B.")

(* C11: in parseExcel a row whose canonical key is not in the compound     *)
(* allow-list opens a new Section only if its unit and rate are both       *)
(* absent and its itemNo is a bare integer or a string of digits, optional *)
(* dot, optional single letter, optional dot; a numeric itemNo that is not *)
(* an integer, or a row with a unit or a rate, opens no Section.           *)
C11_IsInteger(v) == IsNum(v) /\ v.x100 % 100 = 0

C11_IsSectionHeader(row) ==
    /\ row[1] # NULL
    /\ row[3] = NULL /\ row[4] = NULL
    /\ IF IsNum(row[1]) THEN C11_IsInteger(row[1])
       ELSE SectionHeaderRe(trim(row[1].s))

C11_SectionOnlyFromHeader ==
    [][(/\ IsParseExcel /\ ReadsBodyRow
        /\ ~C7_IsCompound(RowRead)
        /\ Len(sections') # Len(sections))
         => C11_IsSectionHeader(RowRead)]_vars

(* C12: in parseExcel a row whose itemNo is exactly one letter, with unit   *)
(* and rate absent, appends one new SubSection (subId = that letter) to the *)
(* current Section and makes it the target of the rate rows that follow     *)
(* when a Section is open; when no Section is open it changes no state.     *)
C12_IsLetterRow(row) ==
    /\ IsStr(row[1])
    /\ Len(trim(row[1].s)) = 1 /\ IsLetter(trim(row[1].s))
    /\ row[3] = NULL /\ row[4] = NULL

C12_NewSubSection(row) ==
    [ sub_id |-> S(trim(row[1].s)), description |-> clean(row[2]), items |-> <<>> ]

C12_LetterSubSection ==
    [][(IsParseExcel /\ ReadsBodyRow /\ C12_IsLetterRow(RowRead)) =>
         IF currentSection # 0
         THEN /\ sections' =
                   [sections EXCEPT ![currentSection].sub_sections =
                        Append(@, C12_NewSubSection(RowRead))]
              /\ currentSection' = currentSection
              /\ currentSubSection' =
                   <<currentSection, Len(sections[currentSection].sub_sections) + 1>>
              /\ Target(LocalsAfter) = <<>>
         ELSE /\ sections' = sections
              /\ currentSection' = currentSection
              /\ currentSubSection' = currentSubSection
       ]_vars

C12_Witness ==
    /\ IsParseExcel
    /\ Len(sections) = 1
    /\ Len(sections[1].sub_sections) = 1
    /\ sections[1].sub_sections[1].sub_id = S("a")
    /\ Len(sections[1].sub_sections[1].items) = 1
    /\ sections[1].items = <<>>
    /\ C12_IsLetterRow(rows[Len(rows) - 1])

(* C13: in parseExcel every auto-detected SubSection has subId "auto_<n>"  *)
(* with n one more than the number of SubSections, letter and auto alike,  *)
(* already in its Section: the SubSection auto_n is the n-th element of    *)
(* its Section's subSections and no two auto ids of one Section are equal. *)
C13_IsAuto(ss) == startsWith(ss.sub_id.s, "auto_")

C13_AutoIdsOf(subs) ==
    /\ \A j \in 1..Len(subs) :
          C13_IsAuto(subs[j]) => subs[j].sub_id = S("auto_" \o NatToStr(j))
    /\ \A i, j \in 1..Len(subs) :
          (C13_IsAuto(subs[i]) /\ i # j) => subs[i].sub_id # subs[j].sub_id

C13_AutoIds ==
    IsParseExcel =>
        \A k \in 1..Len(sections) : C13_AutoIdsOf(sections[k].sub_sections)

C13_Witness ==
    /\ IsParseExcel
    /\ Len(sections) = 1
    /\ Len(sections[1].sub_sections) = 2
    /\ sections[1].sub_sections[1].sub_id = S("a")
    /\ sections[1].sub_sections[2].sub_id = S("auto_2")
    /\ sections[1].sub_sections[2].description = S("PVC/HDPE pipes")

(* C14: in parseExcel a row with no itemNo, no unit and no rate whose raw  *)
(* description cell matches the Skip predicate (starts with "DIAMETER OF   *)
(* PIPE", "DIA in", "DIA of", "NOTE" at a word boundary, or with 4 or more *)
(* spaces) is ignored: no Section, SubSection or RateItem is created and   *)
(* neither cursor moves, even when the text also contains "G.I. PIPES" or  *)
(* "PVC/HDPE pipes".                                                       *)
C14_IsSkipRow(row) ==
    /\ row[1] = NULL /\ row[3] = NULL /\ row[4] = NULL
    /\ isSkip(row[2])

C14_SkipRowIgnored ==
    [][(IsParseExcel /\ ReadsBodyRow /\ C14_IsSkipRow(RowRead)) =>
         /\ sections' = sections
         /\ currentSection' = currentSection
         /\ currentSubSection' = currentSubSection
       ]_vars

(* C15: in parseExcel and parsePublicHealthXLSX the first two rows of the  *)
(* input never affect the result: whatever r1 and r2 are, the Sections     *)
(* built from r1, r2, r3..rn are those a call builds from one fixed pair   *)
(* of rows followed by r3..rn (so any two choices of r1, r2 give equal     *)
(* results), and nothing is built while only r1 and r2 have been read.     *)
C15_FixedTitles == <<HeaderRows[1], HeaderRows[1]>>

C15_SameAsFixedTitles ==
    /\ Len(rows) <= 2 => sections = <<>>
    /\ Len(rows) >= 2 => sections = Parse(prog, C15_FixedTitles \o BodyRows)

C15_TitleRowsIgnored == []C15_SameAsFixedTitles

C15_Witness ==
    /\ Len(rows) = 4
    /\ rows[1] = HeaderRows[2] /\ rows[2] = HeaderRows[2]
    /\ Len(sections) = 1
    /\ Len(sections[1].items) = 1

(* C16: in parseExcel, while no Section has been opened, only              *)
(* section-header and compound-item rows change any state: after any other *)
(* row (blank, single letter, rate-bearing, free text) the output is still *)
(* empty and both cursors are unset.  A row whose itemNo, description,     *)
(* unit and rate are all absent changes no state, whatever the state.      *)
C16_IsOpener(r) ==
    \/ (Truthy(r.sno) /\ isSimpleCompound(r.sno))
    \/ isSectionHeader(r.sno, r.unit, r.rate)

C16_IsBlank(row) == row = <<NULL, NULL, NULL, NULL>>

C16_LocalsUnchanged ==
    /\ sections' = sections
    /\ currentSection' = currentSection
    /\ currentSubSection' = currentSubSection

C16_NoSectionNoEffect ==
    [][(IsParseExcel /\ ReadsBodyRow) =>
         /\ (currentSection = 0 /\ ~C16_IsOpener(Normalize(RowRead))) =>
               /\ sections = <<>>
               /\ sections' = <<>>
               /\ currentSection' = 0
               /\ currentSubSection' = NoSubSection
         /\ C16_IsBlank(RowRead) => C16_LocalsUnchanged
       ]_vars

C16_Witness ==
    /\ IsParseExcel
    /\ Len(rows) = 5
    /\ sections = <<>> /\ currentSection = 0 /\ currentSubSection = NoSubSection
    /\ rows[3] = <<S("a"), S("G.I. PIPES"), NULL, NULL>>
    /\ rows[4][3] # NULL /\ rows[4][4] # NULL
    /\ rows[5][1] = NULL /\ rows[5][3] = NULL /\ rows[5][4] # NULL

(* C17: on every finite sheet whose cells are null, strings or numbers,    *)
(* parseExcel consumes every row exactly once, in order, and comes to the  *)
(* end of the sheet with a list of Sections; a row that matches no rule    *)
(* changes no state.                                                       *)
C17_ReadsNextRow ==
    /\ Len(rows') = Len(rows) + 1
    /\ SubSeq(rows', 1, Len(rows)) = rows

C17_MatchesNoRule(row) == RowRole(Locals, row) \in {"blank", "ignored"}

C17_NoRuleNoChange ==
    (ReadsBodyRow /\ C17_MatchesNoRule(RowRead)) =>
        /\ sections' = sections
        /\ currentSection' = currentSection
        /\ currentSubSection' = currentSubSection

C17_AtEnd ==
    /\ Len(rows) = MaxRows
    /\ DOMAIN sections = 1..Len(sections)
    /\ currentSection = Len(sections)

C17_ConsumesEveryRow ==
    /\ [][IsParseExcel => (C17_ReadsNextRow /\ C17_NoRuleNoChange)]_vars
    /\ <>(IsParseExcel => C17_AtEnd)

C17_Witness ==
    /\ IsParseExcel
    /\ C17_AtEnd
    /\ Len(sections) = 1
    /\ rows[Len(rows) - 1] = <<S("x1"), S("free text"), NULL, NULL>>
    /\ rows[Len(rows)] = <<NULL, S("NOTE: G.I. PIPES"), NULL, NULL>>

C19_LatestImportId == ssr_metadata[Len(ssr_metadata)]._id

C19_ReimportReplaces ==
    Len(ssr_metadata) >= 1 =>
        /\ Len(ssr_sections) = Len(sections)
        /\ \A d \in 1..Len(ssr_sections) :
              /\ ssr_sections[d].import_id = C19_LatestImportId
              /\ ssr_sections[d].item_key = sections[d].item_key

(* C20: in parsePublicHealthXLSX a RateItem's rate is changed after the    *)
(* item is created only while it is still unset: once an item carries a    *)
(* rate (any number, 0 included, or a formula text) no later row modifies  *)
(* the item.                                                               *)
C20_KeptIn(old, new) ==
    /\ Len(new) >= Len(old)
    /\ \A j \in 1..Len(old) : old[j].rate # NULL => new[j] = old[j]

C20_RatedItemsKept ==
    [][(IsPublicHealth /\ ReadsBodyRow) =>
         \A k \in 1..Len(sections) :
            /\ C20_KeptIn(sections[k].items, sections'[k].items)
            /\ \A s \in 1..Len(sections[k].sub_sections) :
                  C20_KeptIn(sections[k].sub_sections[s].items,
                             sections'[k].sub_sections[s].items)
       ]_vars

(* C21: in every reachable state of parsePublicHealthXLSX and of           *)
(* parseExcel each RateItem's rateType agrees with its rate: "numeric"     *)
(* exactly when the rate is a number, "formula" exactly when it is a       *)
(* non-numeric string, also after a rate-only row has back-filled it.      *)
C21_Agrees(item) ==
    /\ (item.rate_type = S("numeric")) <=> IsNum(item.rate)
    /\ (item.rate_type = S("formula")) <=> IsStr(item.rate)

C21_AllAgree(items) == \A j \in 1..Len(items) : C21_Agrees(items[j])

C21_RateTypeAgrees ==
    \A k \in 1..Len(sections) :
        /\ C21_AllAgree(sections[k].items)
        /\ \A s \in 1..Len(sections[k].sub_sections) :
              C21_AllAgree(sections[k].sub_sections[s].items)

(* C22: in the output of parsePublicHealthXLSX the Section ids are 1, 2,   *)
(* .., N in output order; RateItem ids are distinct across the whole       *)
(* document and increase in row order (within every list, and from one     *)
(* Section to the next); every RateItem's section_item_no is the item_no   *)
(* of the Section that holds it, directly or through a SubSection.         *)
RECURSIVE C22_SubSectionItems(_)
C22_SubSectionItems(subs) ==
    IF subs = <<>> THEN <<>>
    ELSE Head(subs).items \o C22_SubSectionItems(Tail(subs))

C22_ItemsOf(sec) == sec.items \o C22_SubSectionItems(sec.sub_sections)

RECURSIVE C22_AllItems(_)
C22_AllItems(secs) ==
    IF secs = <<>> THEN <<>>
    ELSE C22_ItemsOf(Head(secs)) \o C22_AllItems(Tail(secs))

C22_Increasing(items) ==
    \A i, j \in 1..Len(items) : i < j => items[i].id.x100 < items[j].id.x100

C22_Distinct(items) ==
    \A i, j \in 1..Len(items) : i # j => items[i].id # items[j].id

C22_Before(earlier, later) ==
    \A i \in 1..Len(earlier) : \A j \in 1..Len(later) :
        earlier[i].id.x100 < later[j].id.x100

C22_SectionOk(k) ==
    /\ sections[k].id = N(100 * k)
    /\ C22_Increasing(sections[k].items)
    /\ \A s \in 1..Len(sections[k].sub_sections) :
          C22_Increasing(sections[k].sub_sections[s].items)
    /\ \A j \in 1..Len(C22_ItemsOf(sections[k])) :
          /\ C22_ItemsOf(sections[k])[j].section_item_no = sections[k].item_no
          /\ IsNum(C22_ItemsOf(sections[k])[j].id)
          /\ C22_ItemsOf(sections[k])[j].id.x100 \in
                {100 * n : n \in 1..itemIdCounter}
    /\ k > 1 => C22_Before(C22_ItemsOf(sections[k - 1]), C22_ItemsOf(sections[k]))

C22_Ids ==
    IsPublicHealth =>
        /\ \A k \in 1..Len(sections) : C22_SectionOk(k)
        /\ C22_Distinct(C22_AllItems(sections))

C22_Witness ==
    /\ IsPublicHealth
    /\ Len(sections) = 1
    /\ sections[1].id = N(100)
    /\ Len(sections[1].items) = 2
    /\ sections[1].items[1].id = N(100)
    /\ sections[1].items[2].id = N(200)
    /\ sections[1].items[2].section_item_no = sections[1].item_no

(* C23: in parseExcel every SubSection sits in the sub_sections list of    *)
(* one Section and every RateItem in one items list: a row never moves or  *)
(* copies what is already in the tree (every list keeps its elements as a  *)
(* prefix), and a row that creates a SubSection or a RateItem adds one     *)
(* element to one list, so the number of SubSections and RateItems in the  *)
(* tree grows by exactly one.                                              *)
C23_IsPrefix(old, new) ==
    Len(old) <= Len(new) /\ SubSeq(new, 1, Len(old)) = old

C23_SubSectionKept(old, new) ==
    /\ new.sub_id = old.sub_id
    /\ new.description = old.description
    /\ C23_IsPrefix(old.items, new.items)

C23_SectionKept(old, new) ==
    /\ C23_IsPrefix(old.items, new.items)
    /\ Len(old.sub_sections) <= Len(new.sub_sections)
    /\ \A s \in 1..Len(old.sub_sections) :
          C23_SubSectionKept(old.sub_sections[s], new.sub_sections[s])

RECURSIVE C23_CountSubSections(_)
C23_CountSubSections(subs) ==
    IF subs = <<>> THEN 0
    ELSE 1 + Len(Head(subs).items) + C23_CountSubSections(Tail(subs))

RECURSIVE C23_Count(_)
C23_Count(secs) ==
    IF secs = <<>> THEN 0
    ELSE Len(Head(secs).items) + C23_CountSubSections(Head(secs).sub_sections)
           + C23_Count(Tail(secs))

C23_Creates(role) == role \in {"subsection", "auto", "rateItem", "rateOnly"}

C23_Step(role) ==
    /\ Len(sections) <= Len(sections')
    /\ \A k \in 1..Len(sections) : C23_SectionKept(sections[k], sections'[k])
    /\ C23_Count(sections') = C23_Count(sections) + (IF C23_Creates(role) THEN 1 ELSE 0)

C23_ExclusiveOwnership ==
    [][IsParseExcel /\ ReadsBodyRow =>
          C23_Step(Role(currentSection, Normalize(RowRead)))]_vars

C23_Witness ==
    /\ IsParseExcel
    /\ Len(sections) = 1
    /\ Len(sections[1].sub_sections) = 1
    /\ Len(sections[1].sub_sections[1].items) = 1
    /\ Len(sections[1].items) = 0
    /\ C23_Count(sections) = 2

(* C25: the cursor invariant of parseExcel.  currentSection, when set, is  *)
(* the last element of the output, and it is set as soon as the output has *)
(* an element; currentSubSection, when set, is the last element of         *)
(* currentSection.sub_sections.  So once a Section is opened no            *)
(* SubSection of an earlier Section is the open one, and none of them can  *)
(* receive a RateItem.                                                     *)
C25_SectionCursor ==
    IF currentSection = 0 THEN sections = <<>>
    ELSE currentSection = Len(sections)

C25_SubSectionCursor ==
    currentSubSection # NoSubSection =>
        /\ currentSubSection[1] = currentSection
        /\ currentSubSection[2] >= 1
        /\ currentSubSection[2] = Len(sections[currentSection].sub_sections)

C25_CursorInvariant ==
    IsParseExcel => C25_SectionCursor /\ C25_SubSectionCursor

C25_Witness ==
    /\ IsParseExcel
    /\ Len(sections) = 2
    /\ currentSection = 2
    /\ Len(sections[1].sub_sections) = 1
    /\ currentSubSection = NoSubSection

(* C26: in parseExcel every RateItem in the tree has a rate that is not    *)
(* absent (neither null nor undefined), so the last item of the list a     *)
(* rate-only row works on never has an absent rate: the back-fill branch   *)
(* cannot fire, and a row never changes a RateItem that is already in the  *)
(* tree.                                                                   *)
C26_Present(rate) == rate # NULL /\ rate # Undefined

C26_AllPresent(items) == \A j \in 1..Len(items) : C26_Present(items[j].rate)

C26_SectionPresent(sec) ==
    /\ C26_AllPresent(sec.items)
    /\ \A s \in 1..Len(sec.sub_sections) : C26_AllPresent(sec.sub_sections[s].items)

C26_RateNeverAbsent ==
    IsParseExcel => \A k \in 1..Len(sections) : C26_SectionPresent(sections[k])

C26_ItemsKept(old, new) ==
    /\ C23_IsPrefix(old.items, new.items)
    /\ \A s \in 1..Len(old.sub_sections) :
          /\ s <= Len(new.sub_sections)
          /\ C23_IsPrefix(old.sub_sections[s].items, new.sub_sections[s].items)

C26_NoBackFill ==
    /\ []C26_RateNeverAbsent
    /\ [][IsParseExcel /\ ReadsBodyRow =>
             \A k \in 1..Len(sections) :
                 /\ k <= Len(sections')
                 /\ C26_ItemsKept(sections[k], sections'[k])]_vars

C26_Witness ==
    /\ IsParseExcel
    /\ Len(sections) = 1
    /\ Len(sections[1].items) = 2
    /\ sections[1].items[1].rate = N(0)
    /\ sections[1].items[2].unit = NULL
    /\ sections[1].items[2].rate = N(24550)

(* C27: the auto sub-section rule is tested before the full rate item      *)
(* rule.  As claimed: every row read in an open Section with no itemNo,    *)
(* a description containing "G.I. PIPES" or "PVC/HDPE pipes", a unit and a *)
(* rate opens a SubSection auto_<n> and creates no RateItem.               *)
C27_Ambiguous(cur, r) ==
    /\ cur # 0
    /\ ~Truthy(r.sno)
    /\ Truthy(r.desc)
    /\ AutoSubSectionRe(r.desc.s)
    /\ Truthy(r.unit)
    /\ r.rate # NULL

C27_AutoOnly(desc) ==
    /\ sections' =
         [sections EXCEPT ![currentSection].sub_sections =
             Append(@, [ sub_id      |-> S("auto_" \o NatToStr(Len(@) + 1)),
                         description |-> desc,
                         items       |-> <<>> ])]
    /\ currentSubSection' =
         <<currentSection, Len(sections[currentSection].sub_sections) + 1>>
    /\ currentSection' = currentSection

C27_AutoBeforeRateItemAsClaimed ==
    [][IsParseExcel /\ ReadsBodyRow
         /\ C27_Ambiguous(currentSection, Normalize(RowRead))
       => C27_AutoOnly(Normalize(RowRead).desc)]_vars

(* C27, as the code has it: the same, for a description that is not a skip *)
(* text (one starting with DIAMETER OF PIPE, DIA in, DIA of or NOTE); a    *)
(* skip text with a unit and a rate is a full rate item.                   *)
C27_AutoBeforeRateItem ==
    [][IsParseExcel /\ ReadsBodyRow
         /\ C27_Ambiguous(currentSection, Normalize(RowRead))
         /\ ~isSkip(Normalize(RowRead).desc)
       => C27_AutoOnly(Normalize(RowRead).desc)]_vars

C27_Witness ==
    /\ IsParseExcel
    /\ Len(rows) = 4
    /\ LastRow = PrecedenceRows[2]
    /\ Len(sections) = 1
    /\ sections[1].items = <<>>
    /\ Len(sections[1].sub_sections) = 1
    /\ sections[1].sub_sections[1].sub_id = S("auto_1")
    /\ sections[1].sub_sections[1].items = <<>>
    /\ currentSubSection = <<1, 1>>

(* C24: in a run of main, close() is called on the client exactly once,    *)
(* in the finally block: whichever await of storeToMongoDB throws          *)
(* (connect, insertOne, deleteMany, insertMany, createIndex), the          *)
(* connection is closed by the time the promise main awaits is settled,    *)
(* and the process then exits with status 1; when nothing throws the       *)
(* connection is closed once, after all the indexes are created, and the   *)
(* process exits with status 0.                                            *)
C24_Settled == proc.pc \in {"settled", "exited"}

C24_ClosedOnce ==
    /\ C24_Settled => proc.closes = 1 /\ ~proc.connected
    /\ ~C24_Settled => proc.closes = 0
    /\ (C24_Settled /\ proc.err = "none") => proc.indexes = Indexes

C24_ExitStatus ==
    /\ proc.exit # <<>> => proc.pc = "exited"
    /\ proc.pc = "exited" =>
          proc.exit = (IF proc.err = "none" THEN <<0>> ELSE <<1>>)

C24_Steps == {"connect", "insertOne", "deleteMany", "insertMany", "createIndex"}

C24_CloseThenExit ==
    /\ [](C24_ClosedOnce /\ C24_ExitStatus)
    /\ (proc.err \in C24_Steps) ~> (proc.closes = 1 /\ proc.exit = <<1>>)

C24_Witness ==
    /\ proc.pc = "exited"
    /\ proc.err = "insertMany"
    /\ proc.closes = 1
    /\ proc.exit = <<1>>
    /\ Len(ssr_metadata) = 1
    /\ Len(sections) = 2
    /\ Len(ssr_sections) = 1

(* C28: in convertToJSON the chunks follow the PRIMARY_ITEM and            *)
(* COMMON_DATA_HEADER rows, which are the rows after row 4 whose first     *)
(* cell mentions "common data" or holds a PHE code, one chunk per such row *)
(* and in row order: while the sheet is being read `chunks` holds the      *)
(* chunks of all these rows but the last, whose chunk is the open          *)
(* `primary`; the object returned holds them all in `items`; and as long   *)
(* as only rows 1 to 4 have been read nothing is open and no chunk exists. *)
C28_IsConvert == prog = "convertToJSON"

C28_OpensRow(row, i) ==
    /\ i > 4
    /\ \/ includes(toLowerCase(CellText(row[1])), "common data")
       \/ RE_PHE(CellText(row[1]))

C28_Opens(i) == C28_OpensRow(rows[i], i)

RECURSIVE C28_Openers(_)
C28_Openers(n) ==
    IF n = 0 THEN <<>>
    ELSE IF C28_Opens(n) THEN Append(C28_Openers(n - 1), n)
    ELSE C28_Openers(n - 1)

C28_RowsOf(cs) == [k \in 1..Len(cs) |-> cs[k].row]

C28_CodeOf(i) ==
    IF includes(toLowerCase(CellText(rows[i][1])), "common data") THEN "__COMMON__"
    ELSE CellText(rows[i][1])

C28_ChunksMatch(cs) ==
    \A k \in 1..Len(cs) : cs[k].index_code = C28_CodeOf(cs[k].row)

C28_Follows(openers) ==
    IF output # NULL
    THEN /\ primary = NULL
         /\ chunks = output.items
         /\ C28_RowsOf(output.items) = openers
         /\ C28_ChunksMatch(output.items)
    ELSE /\ C28_RowsOf(chunks) \o (IF primary = NULL THEN <<>> ELSE <<primary.row>>)
              = openers
         /\ (primary = NULL) <=> (openers = <<>>)
         /\ C28_ChunksMatch(chunks)

C28_ChunksFollowRows ==
    C28_IsConvert =>
        /\ C28_Follows(C28_Openers(Len(rows)))
        /\ (Len(rows) <= 4 /\ output = NULL) =>
              chunks = <<>> /\ primary = NULL /\ subItem = NULL

C28_TypeOfRowRead ==
    (classifyRow(RowRead, Len(rows')) \in {"PRIMARY_ITEM", "COMMON_DATA_HEADER"})
        <=> C28_OpensRow(RowRead, Len(rows'))

C28_OneChunkPerPrimaryRow ==
    /\ []C28_ChunksFollowRows
    /\ [][C28_IsConvert /\ Len(rows') = Len(rows) + 1 => C28_TypeOfRowRead]_vars

C28_Witness ==
    /\ C28_IsConvert
    /\ Len(rows) = 7
    /\ rows[4] = FileHeaderRows[2]
    /\ output # NULL
    /\ C28_RowsOf(output.items) = <<5, 6, 7>>
    /\ output.items[2].index_code = "__COMMON__"
    /\ output.items[3].index_code = "PHE-PL-1"
    /\ output.total_items = 2

(* C29: in convertToJSON a sub-item header row is a row after row 4 that   *)
(* opens no primary item and whose second cell is a roman numeral or one   *)
(* capital letter.  The sub-items of a chunk are, in row order, exactly    *)
(* the sub-items whose header row was read while that chunk was the open   *)
(* primary item (the last of them being the open `subItem` until it is     *)
(* closed); a sub-item opened while no primary item is open, and every row *)
(* read while it is the open one, appears nowhere in the object returned.  *)
C29_SubHeaderRow(row, i) ==
    /\ i > 4
    /\ ~C28_OpensRow(row, i)
    /\ CellText(row[2]) # ""
    /\ \/ toLowerCase(CellText(row[2])) \in ROMAN_NUMERALS
       \/ RE_ALPHA_UP(CellText(row[2]))

C29_SubHeader(i) == C29_SubHeaderRow(rows[i], i)

\* the row of the primary item open once rows 1..n are read, 0 when none is
RECURSIVE C29_Owner(_)
C29_Owner(n) ==
    IF n = 0 THEN 0
    ELSE IF C28_Opens(n) THEN n
    ELSE C29_Owner(n - 1)

\* the header rows up to n of the sub-items opened under the primary of row r
RECURSIVE C29_SubRowsOf(_, _)
C29_SubRowsOf(r, n) ==
    IF n = 0 THEN <<>>
    ELSE IF C29_SubHeader(n) /\ C29_Owner(n) = r THEN Append(C29_SubRowsOf(r, n - 1), n)
    ELSE C29_SubRowsOf(r, n - 1)

\* row i is read while a sub-item opened under no primary item is the open one
RECURSIVE C29_Orphaned(_)
C29_Orphaned(i) ==
    IF i = 0 \/ C28_Opens(i) THEN FALSE
    ELSE IF C29_SubHeader(i) THEN C29_Owner(i) = 0
    ELSE C29_Orphaned(i - 1)

C29_ListRows(list) == {list[j].row : j \in 1..Len(list)}

C29_SubItemRows(sub) ==
    {sub.row} \cup C29_ListRows(sub.labour) \cup C29_ListRows(sub.material)
        \cup C29_ListRows(sub.testing) \cup C29_ListRows(sub.sundry)

C29_ChunkRows(c) ==
    {c.row} \cup C29_ListRows(c.direct_labour) \cup C29_ListRows(c.direct_material)
        \cup C29_ListRows(c.notes)
        \cup UNION {C29_SubItemRows(c.sub_items[j]) : j \in 1..Len(c.sub_items)}

C29_OutputRows == UNION {C29_ChunkRows(output.items[k]) : k \in 1..Len(output.items)}

C29_OpenSubItem == IF subItem = NULL THEN <<>> ELSE <<subItem.row>>

C29_SubItemsInPlace ==
    C28_IsConvert =>
        /\ \A k \in 1..Len(chunks) :
              C28_RowsOf(chunks[k].sub_items) = C29_SubRowsOf(chunks[k].row, Len(rows))
        /\ primary # NULL =>
              C28_RowsOf(primary.sub_items) \o C29_OpenSubItem
                  = C29_SubRowsOf(primary.row, Len(rows))
        /\ (primary = NULL /\ subItem # NULL) => C29_Owner(subItem.row) = 0
        /\ output # NULL =>
              /\ subItem = NULL
              /\ \A i \in 1..Len(rows) : C29_Orphaned(i) => i \notin C29_OutputRows

C29_TypeOfRowRead ==
    (classifyRow(RowRead, Len(rows')) \in {"SUB_ITEM_ROMAN", "SUB_ITEM_ALPHA"})
        <=> C29_SubHeaderRow(RowRead, Len(rows'))

C29_SubItemsOfOpenPrimary ==
    /\ []C29_SubItemsInPlace
    /\ [][C28_IsConvert /\ Len(rows') = Len(rows) + 1 => C29_TypeOfRowRead]_vars

C29_Witness ==
    /\ C28_IsConvert
    /\ output # NULL
    /\ Len(rows) = 7
    /\ rows[5] = SheetRows[3]
    /\ rows[6] = SheetRows[5]
    /\ rows[7] = SheetRows[1]
    /\ Len(output.items) = 1
    /\ output.items[1].row = 7
    /\ output.items[1].sub_items = <<>>
    /\ C29_OutputRows = {7}

(* C30: in convertToJSON a row read as an INPUT_ROW while a sub-item or a  *)
(* primary item is open adds one element (its description, its row number) *)
(* to one list and changes nothing else: the list is one of the open       *)
(* sub-item if there is one, else one of the open primary item; it is      *)
(* testing when the lower-cased description contains "test" or             *)
(* "hydraulic", else labour when it starts with a labour role, else        *)
(* material, and for a primary item direct_labour for labour and           *)
(* direct_material for testing and material.                               *)
C30_Kind(low) ==
    IF includes(low, "test") \/ includes(low, "hydraulic") THEN "testing"
    ELSE IF \E i \in 1..Len(LABOUR_ROLES) : startsWith(low, LABOUR_ROLES[i])
      THEN "labour"
    ELSE "material"

C30_PrimaryList(kind) ==
    IF kind = "labour" THEN "direct_labour" ELSE "direct_material"

C30_Added(old, new, desc, n) ==
    /\ Len(new) = Len(old) + 1
    /\ SubSeq(new, 1, Len(old)) = old
    /\ new[Len(new)].description = desc
    /\ new[Len(new)].row = n

\* the record `new` is `old` with one element more in its list `list`
C30_OnlyListGrows(old, new, list, desc, n) ==
    /\ C30_Added(old[list], new[list], desc, n)
    /\ new = [old EXCEPT ![list] = new[list]]

C30_Routed(kind, desc, n) ==
    /\ chunks' = chunks
    /\ IF subItem # NULL
       THEN /\ primary' = primary
            /\ subItem' # NULL
            /\ C30_OnlyListGrows(subItem, subItem', kind, desc, n)
       ELSE /\ subItem' = NULL
            /\ primary' # NULL
            /\ C30_OnlyListGrows(primary, primary', C30_PrimaryList(kind), desc, n)

C30_InputRowRouted ==
    [][( /\ C28_IsConvert
         /\ Len(rows') = Len(rows) + 1
         /\ classifyRow(RowRead, Len(rows')) = "INPUT_ROW"
         /\ (subItem # NULL \/ primary # NULL) )
       => \E kind \in {C30_Kind(toLowerCase(CellText(RowRead[3])))} :
              C30_Routed(kind, CellText(RowRead[3]), Len(rows'))]_vars

C30_Witness ==
    /\ C28_IsConvert
    /\ output = NULL
    /\ Len(rows) = 7
    /\ rows[6] = SheetRows[7]
    /\ rows[7] = SheetRows[5]
    /\ subItem = NULL
    /\ primary # NULL
    /\ Len(primary.direct_material) = 1
    /\ primary.direct_material[1].row = 6
    /\ primary.direct_material[1].labour_role = S("mazdoor")
    /\ Len(primary.direct_labour) = 1
    /\ primary.direct_labour[1].row = 7

(* C31: in convertToJSON every sub-item, open or closed, has as weight_kg   *)
(* the weight of the first weight row read while it was open that states a *)
(* weight ("= N kg"), later weight rows never replacing it, and as         *)
(* rate_formula and output_unit those of the last rate-formula row read    *)
(* while it was open that names a unit after "rate per"; both stay null    *)
(* when there is no such row; and a weight, rate-formula or sundry row     *)
(* read while no sub-item is open changes none of the converter's locals.  *)
C31_Type(i) == classifyRow(rows[i], i)

\* row i closes the sub-item that is open when it is read
C31_Closes(i) ==
    C31_Type(i) \in {"PRIMARY_ITEM", "COMMON_DATA_HEADER", "SUB_ITEM_ROMAN", "SUB_ITEM_ALPHA"}

\* the rows read while the sub-item of header row r was open
C31_ReadWhileOpen(r) ==
    {i \in (r + 1)..Len(rows) : \A j \in (r + 1)..i : ~C31_Closes(j)}

C31_WeightOf(i) == extractWeight(CellText(rows[i][3]))
C31_RateOf(i) == extractRateFormula(CellText(rows[i][3]))

C31_WeightRowsOf(r) == {i \in C31_ReadWhileOpen(r) : C31_Type(i) = "WEIGHT_CALC"}
C31_RateRowsOf(r) == {i \in C31_ReadWhileOpen(r) : C31_Type(i) = "RATE_FORMULA"}

C31_First(set) == CHOOSE i \in set : \A j \in set : i <= j
C31_Last(set) == CHOOSE i \in set : \A j \in set : i >= j

C31_UnitOf(rf) == IF rf = NULL THEN NULL ELSE S(rf.per)

\* every sub-item the converter holds: the open one, those of the open
\* primary item and those of the finished chunks
C31_SubItemsOf(c) == {c.sub_items[k] : k \in 1..Len(c.sub_items)}

C31_SubItems ==
    (IF subItem = NULL THEN {} ELSE {subItem})
      \union (IF primary = NULL THEN {} ELSE C31_SubItemsOf(primary))
      \union UNION {C31_SubItemsOf(chunks[k]) : k \in 1..Len(chunks)}

C31_Holds(sub, weights, rates) ==
    /\ sub.weight_kg = IF weights = {} THEN NULL ELSE C31_WeightOf(C31_First(weights))
    /\ sub.rate_formula = IF rates = {} THEN NULL ELSE C31_RateOf(C31_Last(rates))
    /\ sub.output_unit = C31_UnitOf(sub.rate_formula)

\* the claim as stated: the first weight row and the last rate-formula row,
\* whatever they state
C31_FirstWeightLastRateAsClaimed ==
    C28_IsConvert =>
        \A sub \in C31_SubItems :
            C31_Holds(sub, C31_WeightRowsOf(sub.row), C31_RateRowsOf(sub.row))

C31_FirstWeightLastRate ==
    C28_IsConvert =>
        \A sub \in C31_SubItems :
            C31_Holds(sub,
                      {i \in C31_WeightRowsOf(sub.row) : C31_WeightOf(i) # NULL},
                      {i \in C31_RateRowsOf(sub.row) : C31_RateOf(i) # NULL})

C31_NothingWithoutSubItem ==
    [][( /\ C28_IsConvert
         /\ Len(rows') = Len(rows) + 1
         /\ subItem = NULL
         /\ classifyRow(RowRead, Len(rows')) \in {"WEIGHT_CALC", "RATE_FORMULA", "SUNDRY"} )
       => UNCHANGED converter]_vars

C31_WeightKeptRateReplaced == []C31_FirstWeightLastRate /\ C31_NothingWithoutSubItem

C31_WeightKeptRateReplacedAsClaimed ==
    []C31_FirstWeightLastRateAsClaimed /\ C31_NothingWithoutSubItem

\* an open sub-item that read two weight rows stating a weight and keeps the
\* first, then a rate-formula row
C31_Witness ==
    /\ C28_IsConvert
    /\ output = NULL
    /\ Len(rows) = 8
    /\ rows[5] = WeightRows[2]
    /\ rows[6] = WeightRows[4]
    /\ rows[7] = WeightRows[5]
    /\ rows[8] = WeightRows[7]
    /\ subItem # NULL
    /\ subItem.weight_kg # NULL
    /\ subItem.weight_kg.value = N(8550)
    /\ subItem.rate_formula # NULL
    /\ subItem.rate_formula.per = "rmt"
    /\ subItem.output_unit = S("rmt")

(* C32: in parseSheet the items held (those appended, then the open one;   *)
(* after the return, those of the output) are, in row order, one per       *)
(* section-header row read: the k-th has the item number of the k-th       *)
(* header, as rates the data rows (column A empty, numeric diameter,       *)
(* string unit, numeric rate) read after that header and before the next   *)
(* one, in row order, and as unit the trimmed unit of the first of those   *)
(* rows (null while there is none); so data rows before the first header   *)
(* appear nowhere, and the output holds every section once, the last one   *)
(* included.                                                               *)
C32_IsParseSheet == prog = "parseSheet"

C32_Empty(cell) == cell = NULL \/ cell = Undefined

C32_IsHeader(row) == PSisSectionHeader(Col(row, 1), Col(row, 2), Col(row, 3), Col(row, 4))

C32_IsData(row) ==
    C32_Empty(row[1]) /\ row[2].t = "num" /\ row[3].t = "str" /\ row[4].t = "num"

C32_Headers == {i \in 1..Len(rows) : C32_IsHeader(rows[i])}

\* the data rows between header row h and the next header row
C32_DataRowsOf(h) ==
    {i \in (h + 1)..Len(rows) :
        C32_IsData(rows[i]) /\ \A j \in (h + 1)..i : ~C32_IsHeader(rows[j])}

RECURSIVE C32_Ascending(_)
C32_Ascending(set) ==
    IF set = {} THEN <<>>
    ELSE <<C31_First(set)>> \o C32_Ascending(set \ {C31_First(set)})

C32_Entry(row) == [ diameter |-> row[2], rate |-> parseFloat(toFixed2(row[4])) ]

C32_RatesOf(data) == [k \in 1..Len(data) |-> C32_Entry(rows[data[k]])]

C32_UnitOf(data) == IF data = <<>> THEN NULL ELSE S(trim(rows[data[1]][3].s))

C32_Items ==
    IF output # NULL THEN output.items
    ELSE IF current # NULL THEN Append(sheetItems, current)
    ELSE sheetItems

C32_ItemOfHeader(item, h, data) ==
    /\ item.itemNo = normaliseItemNo(rows[h][1])
    /\ item.rates = C32_RatesOf(data)
    /\ item.unit = C32_UnitOf(data)

C32_ItemsOfHeaders(its, hs) ==
    /\ Len(its) = Len(hs)
    /\ \A k \in 1..Len(hs) :
          C32_ItemOfHeader(its[k], hs[k], C32_Ascending(C32_DataRowsOf(hs[k])))
    /\ output = NULL => /\ (current = NULL) = (hs = <<>>)
                        /\ Len(sheetItems) = IF hs = <<>> THEN 0 ELSE Len(hs) - 1
    /\ output # NULL => /\ sheetItems = output.items
                        /\ output.totalItems = Len(hs)

C32_RatesBetweenHeaders ==
    C32_IsParseSheet =>
        \E hs \in {C32_Ascending(C32_Headers)} : C32_ItemsOfHeaders(C32_Items, hs)

\* a data row, a header, two data rows with different units, a second
\* header, and the return
C32_Witness ==
    /\ C32_IsParseSheet
    /\ rows = <<PipeRows[5], PipeRows[1], PipeRows[4], PipeRows[5], PipeRows[2]>>
    /\ output # NULL
    /\ Len(output.items) = 2
    /\ output.items[1].itemNo = "8a"
    /\ output.items[1].unit = S("Rmt")
    /\ Len(output.items[1].rates) = 2
    /\ output.items[1].rates[1] = [diameter |-> N(1500), rate |-> N(1235)]
    /\ output.items[1].rates[2].diameter = N(2000)
    /\ output.items[2].itemNo = "10"
    /\ output.items[2].unit = NULL
    /\ output.items[2].rates = <<>>

(* C33: in importExcel a row whose lower-cased description contains        *)
(* "semi-skilled" sets the current category to "Semi-Skilled", one whose   *)
(* description contains "unskilled" sets it to "Unskilled", whatever else  *)
(* the description contains; every category heading sets the sub-category  *)
(* to null; and a record is pushed with the category its nearest heading   *)
(* above names.                                                            *)
C33_IsImport == prog = "importExcel"

C33_LowerDesc(row) == toLowerCase(TextOrEmpty(row[3]))

\* the category a heading names, "" for a row that is no category heading
C33_Named(low) ==
    IF includes(low, "semi-skilled") THEN "Semi-Skilled"
    ELSE IF includes(low, "unskilled") THEN "Unskilled"
    ELSE IF includes(low, "skilled workmen") THEN "Skilled"
    ELSE IF includes(low, "other conveyance") THEN "Conveyance"
    ELSE ""

C33_Headings(n) == {i \in 1..n : C33_Named(C33_LowerDesc(rows'[i])) # ""}

C33_HeadingAbove(n) == C33_Named(C33_LowerDesc(rows'[C31_Last(C33_Headings(n))]))

C33_Sets(low) ==
    /\ includes(low, "semi-skilled") => currentSection' = S("Semi-Skilled")
    /\ includes(low, "unskilled") => currentSection' = S("Unskilled")
    /\ C33_Named(low) # "" => currentSubSection' = NULL

C33_Recorded ==
    Len(finalData') = Len(finalData) + 1
        => finalData'[Len(finalData')].category = S(C33_HeadingAbove(Len(rows')))

C33_HeadingSetsCategory ==
    [][(C33_IsImport /\ Len(rows') = Len(rows) + 1)
          => C33_Sets(C33_LowerDesc(RowRead)) /\ C33_Recorded]_vars

(* C34: every record importExcel has collected satisfies the LabourRate    *)
(* schema (its category is one of Skilled, Semi-Skilled, Unskilled,        *)
(* Conveyance, its description and its unit are not empty, its rate is a   *)
(* number), and the run never ends on a validation failure of insertMany,  *)
(* which comes after deleteMany has emptied the collection.                *)
C34_Satisfies(doc) ==
    /\ doc.category \in {S("Skilled"), S("Semi-Skilled"), S("Unskilled"), S("Conveyance")}
    /\ doc.description # ""
    /\ doc.unit # ""
    /\ doc.rate.t = "num"

C34_RecordsSatisfySchema ==
    C33_IsImport =>
        /\ \A k \in 1..Len(finalData) : C34_Satisfies(finalData[k])
        /\ proc.err # "validation"

====
